---- MODULE Spec2Model ----
(***************************************************************************)
(* Model of the Chicago ingestion pipeline (engineering_pipeline.py) and   *)
(* of the retrieval modules that read its corpus file, each part under a   *)
(* specification of its own.                                               *)
(*                                                                         *)
(*   SpecChunk     chunk_text as a pure function                           *)
(*   SpecMerge     merge_results, applied once and then again              *)
(*   SpecSumm      summarize_with_ollama step by step, called by           *)
(*                 process_pdf and retry_failed_chunks for one PDF         *)
(*   Spec          runs of process_multiple_pdfs on the corpus file, the   *)
(*                 save written entry by entry, and a reader of the file   *)
(*   SpecOrder     the same runs with a reader that searches what it loads *)
(*   SpecReingest  one run of process_multiple_pdfs as one step, over an   *)
(*                 existing corpus file of any content                     *)
(*   SpecScore     score_chunk                                             *)
(*   SpecSearch    search / search_chunks of query_chunks, retrieval_v2    *)
(*   SpecYears     search_chunks of retrieval_bullets (year bounds)        *)
(*   SpecSemantic  semantic_search                                         *)
(*   SpecSynth     synthesize_answer step by step                          *)
(*   SpecEntry     the entry points: loaders, main functions and           *)
(*                 get_historical_context of both assistants               *)
(*   SpecCache     get_chunks and the module-level corpus cache            *)
(***************************************************************************)
EXTENDS Integers, Sequences, FiniteSets, TLC

\* ------------------------------------------------------------------ bounds
MaxTextLen == 6      \* characters of an input text
MaxWords == 3        \* largest max_words drawn
MaxLimit == 3        \* largest max_chunks drawn
MaxExisting == 3     \* entries of the existing corpus handed to merge_results
MaxIncoming == 2     \* Units of the batch handed to merge_results
MaxRetries == 2      \* largest retry budget RETRIES drawn
MaxChunks == 2       \* chunks of the PDF handed to process_pdf
MaxRuns == 2         \* runs of process_multiple_pdfs
MaxPdfs == 2         \* entries of pdf_paths in one run
MaxQueryLen == 3     \* characters of a query scored against a summary
MaxSummaryLen == 3   \* characters of a summary scored
MaxCorpus == 3       \* Units of the corpus handed to a search function
MaxTopK == 3         \* largest top_k drawn
MaxResults == 3      \* ranked results handed to synthesize_answer
MaxFileUnits == 2    \* Units of the corpus file an entry point loads
MaxCalls == 3        \* calls of get_chunks in one process

\* --------------------------------------------------------------- variables
VARIABLES
    c_pc,            \* chunker: "input" | "chunked" | "chunked_pdf"
    text,            \* chunk_text argument: a sequence of characters
    max_words,       \* chunk_text argument
    max_chunks,      \* chunk_text argument: [isNone |-> BOOLEAN, val |-> Nat]
    chunks,          \* chunk_text return value: a sequence of strings
    m_pc,            \* merge: "input" | "merged" | "merged_twice"
    existing_results,\* merge_results argument: entries of a loaded corpus
    new_results,     \* merge_results argument: the Units of one process_pdf
    merged,          \* merge_results(existing_results, new_results)
    merged_again,    \* merge_results(merged, new_results)
    RETRIES,         \* the retry budget (module global RETRIES)
    p_pc,            \* caller of summarize_with_ollama: "process_pdf" |
                     \* "retry_failed_chunks" | "done" | "aborted"
    n_chunks,        \* process_pdf: len(chunks)
    chunk_index,     \* process_pdf: loop index i
    results,         \* process_pdf: results / retry_failed_chunks: all_results
    failed_chunks,   \* retry_failed_chunks: indices into results still to retry
    made,            \* history: per Unit of results, the attempts made for it
                     \* by all calls of summarize_with_ollama so far
    left_running,    \* history: a process of an earlier call for this PDF
                     \* was left running when the call returned
    s_pc,            \* summarize_with_ollama: "idle" | "loop" | "communicate" |
                     \* "timeout_caught" | "returned" | "raised"
    attempt,         \* summarize_with_ollama: loop variable (0-based)
    last_error,      \* summarize_with_ollama: last_error
    summary,         \* the record summarize_with_ollama returned
    streams,         \* history: what communicate returned to this call
    procs,           \* this call's external processes, one per attempt:
                     \* "none" (never spawned) | "running" | "exited" | "killed"
    outcomes,        \* history: how each attempt of this call ended
    recorded,        \* history: the error recorded for each failed attempt
    append,          \* process_multiple_pdfs argument of the last run started
    file,            \* the corpus file: [exists, complete, shape, items];
                     \* items is what json.load yields when complete
    i_pc,            \* process_multiple_pdfs: "idle" | "processing" | "saving"
    all_results,     \* process_multiple_pdfs: all_results
    n_done,          \* entries of pdf_paths gone through in this run
    written,         \* entries of all_results json.dump has written
    runs,            \* runs started so far
    batch,           \* history: per file name, how often this run processed
                     \* it and the Units of its last processing
    run_end,         \* history: how the last run ended
    old_file,        \* history: the file as it was when the save of this
                     \* run began
    seen,            \* what the last load of a reader since the run
                     \* began returned
    k_pc,            \* scoring: "input" | "scored"
    query,           \* the query string: a sequence of characters
    summary_text,    \* the summary of the Unit scored
    score,           \* score_chunk's return value
    r_pc,            \* retrieval: "input" | "searched" | "searched_v2" |
                     \* "searched_years" | "searched_semantic"
    r_query,         \* the query argument of the search functions
    r_chunks,        \* the chunks argument: the loaded Units
    top_k,           \* the top_k argument
    pdf_filter,      \* search: pdf_filter, [isNone, val]
    before,          \* search_chunks: before, [isNone, val]
    after,           \* search_chunks: after, [isNone, val]
    vectors,         \* what embed_texts returns: [query, chunks]
    scored,          \* the list the search function returned: tuples
                     \* (score, chunk) or (score, chunk, years), the chunk
                     \* given by its index in r_chunks
    y_pc,            \* synthesize_answer: "input" | "built" | "communicate" |
                     \* "timeout_caught" | "returned" | "raised"
    retrieved_chunks,\* synthesize_answer argument: the ranked results
    ref_map,         \* synthesize_answer: (pdf, chunk) -> reference number
    references,      \* synthesize_answer: [(number, pdf, chunk), ...]
    combined,        \* synthesize_answer: the cited summaries of the prompt,
                     \* as pairs (summary, reference number)
    y_procs,         \* the generation processes this call started
    y_ended,         \* history: how the generation call ended and what
                     \* the process had written
    returned,        \* what synthesize_answer returned: [text, references]
    e_pc,            \* a query entry point: "input" | "done"
    corpus_file,     \* the corpus file the entry point is given
    year_filter,     \* the year_filter argument / the --before, --after
                     \* options: [isNone, before, after]
    loaded,          \* what the loader of the entry point returned
    strategy,        \* history: the search function that ranked
    outcome,         \* what the user got: [entry, how, cls, results, said]
    CACHED_CHUNKS,   \* the module global _CACHED_CHUNKS of travel_assistant.py
    file_loads,      \* history: what each call of load_chunks by get_chunks
                     \* returned, or that it raised
    call_returns     \* history: what each call of get_chunks returned, or
                     \* that it raised

chunkVars == <<c_pc, text, max_words, max_chunks, chunks>>
mergeVars == <<m_pc, existing_results, new_results, merged, merged_again>>
summVars == <<RETRIES, p_pc, n_chunks, chunk_index, results, failed_chunks,
              made, left_running, s_pc, attempt, last_error, summary, streams, procs, outcomes,
              recorded>>
ingestVars == <<append, file, i_pc, all_results, n_done, written, runs, batch,
                run_end, old_file, seen>>
scoreVars == <<k_pc, query, summary_text, score>>
searchVars == <<r_pc, r_query, r_chunks, top_k, pdf_filter, before, after, vectors,
                scored>>
synthVars == <<y_pc, retrieved_chunks, ref_map, references, combined, y_procs,
               y_ended, returned>>
entryVars == <<e_pc, corpus_file, year_filter, loaded, strategy, outcome,
               CACHED_CHUNKS, file_loads, call_returns>>
retrievalVars == <<scoreVars, searchVars, synthVars, entryVars>>
vars == <<chunkVars, mergeVars, summVars, ingestVars, retrievalVars>>
notChunk == <<mergeVars, summVars, ingestVars, retrievalVars>>
notMerge == <<chunkVars, summVars, ingestVars, retrievalVars>>
notSumm == <<chunkVars, mergeVars, ingestVars, retrievalVars>>
notIngest == <<chunkVars, mergeVars, summVars, retrievalVars>>
pipelineVars == <<chunkVars, mergeVars, summVars, ingestVars>>
notScore == <<pipelineVars, searchVars, synthVars, entryVars>>
notSearch == <<pipelineVars, scoreVars, synthVars, entryVars>>
notSynth == <<pipelineVars, scoreVars, searchVars, entryVars>>
notEntry == <<pipelineVars, scoreVars, searchVars, synthVars>>

\* ------------------------------------------- a component that is not run
ChunkIdle ==
    /\ c_pc = "idle"
    /\ text = <<>>
    /\ max_words = 1
    /\ max_chunks = [isNone |-> TRUE, val |-> 0]
    /\ chunks = <<>>

MergeIdle ==
    /\ m_pc = "idle"
    /\ existing_results = <<>>
    /\ new_results = <<>>
    /\ merged = <<>>
    /\ merged_again = <<>>

\* The value None.
None == <<"None">>
NoSummary == [summary |-> <<>>, status |-> "none", retries |-> 0, error |-> None]
NoStreams == [stdout |-> <<>>, stderr |-> <<>>]

SummIdle ==
    /\ RETRIES = 1
    /\ p_pc = "idle"
    /\ n_chunks = 0
    /\ chunk_index = 0
    /\ results = <<>>
    /\ failed_chunks = <<>>
    /\ made = <<>>
    /\ left_running = FALSE
    /\ s_pc = "idle"
    /\ attempt = 0
    /\ last_error = <<>>
    /\ summary = NoSummary
    /\ streams = NoStreams
    /\ procs = <<>>
    /\ outcomes = <<>>
    /\ recorded = <<>>

PdfNames == {"a.pdf", "b.pdf"}
AbsentFile == [exists |-> FALSE, complete |-> FALSE, shape |-> "list", items |-> <<>>]
ListFile(entries) == [exists |-> TRUE, complete |-> TRUE, shape |-> "list", items |-> entries]
\* A file whose content is cut short: json.load raises on it.
TornFile == [exists |-> TRUE, complete |-> FALSE, shape |-> "list", items |-> <<>>]
NotProcessed == [times |-> 0, units |-> <<>>]
NothingSeen == [state |-> "none", items |-> <<>>]

IngestIdle ==
    /\ append = TRUE
    /\ file = AbsentFile
    /\ i_pc = "off"
    /\ all_results = <<>>
    /\ n_done = 0
    /\ written = 0
    /\ runs = 0
    /\ batch = [name \in PdfNames |-> NotProcessed]
    /\ run_end = "none"
    /\ old_file = AbsentFile
    /\ seen = NothingSeen

ScoreIdle ==
    /\ k_pc = "idle"
    /\ query = <<>>
    /\ summary_text = <<>>
    /\ score = 0

NoVectors == [query |-> <<>>, chunks |-> <<>>]

SearchIdle ==
    /\ r_pc = "idle"
    /\ r_query = <<>>
    /\ r_chunks = <<>>
    /\ top_k = 0
    /\ pdf_filter = [isNone |-> TRUE, val |-> <<>>]
    /\ before = [isNone |-> TRUE, val |-> 0]
    /\ after = [isNone |-> TRUE, val |-> 0]
    /\ vectors = NoVectors
    /\ scored = <<>>

NoRefs == [key \in {} |-> 0]
NotEnded == [how |-> "none", output |-> <<>>]
NotReturned == [text |-> <<>>, references |-> <<>>]

SynthIdle ==
    /\ y_pc = "idle"
    /\ retrieved_chunks = <<>>
    /\ ref_map = NoRefs
    /\ references = <<>>
    /\ combined = <<>>
    /\ y_procs = <<>>
    /\ y_ended = NotEnded
    /\ returned = NotReturned

\* A value json.load or a loader returns: a list, or a dict whose one key
\* "summaries" holds the items.
EmptyList == [kind |-> "list", items |-> <<>>]
NoneValue == [kind |-> "None", items |-> <<>>]
NoOutcome ==
    [entry |-> "none", how |-> "none", cls |-> "none", results |-> <<>>, said |-> {}]

EntryIdle ==
    /\ e_pc = "idle"
    /\ corpus_file = AbsentFile
    /\ year_filter = [isNone |-> TRUE,
                      before |-> [isNone |-> TRUE, val |-> 0],
                      after |-> [isNone |-> TRUE, val |-> 0]]
    /\ loaded = EmptyList
    /\ strategy = "none"
    /\ outcome = NoOutcome
    /\ CACHED_CHUNKS = NoneValue
    /\ file_loads = <<>>
    /\ call_returns = <<>>

RetrievalIdle ==
    /\ ScoreIdle
    /\ SearchIdle
    /\ SynthIdle
    /\ EntryIdle

PipelineIdle ==
    /\ ChunkIdle
    /\ MergeIdle
    /\ SummIdle
    /\ IngestIdle

OnlyScore == PipelineIdle /\ SearchIdle /\ SynthIdle /\ EntryIdle
OnlySearch == PipelineIdle /\ ScoreIdle /\ SynthIdle /\ EntryIdle
OnlySynth == PipelineIdle /\ ScoreIdle /\ SearchIdle /\ EntryIdle
OnlyEntry == PipelineIdle /\ ScoreIdle /\ SearchIdle /\ SynthIdle

\* ================================================================ strings
\* A string is a sequence of one-character strings.
Whitespace == {" ", "\n"}
Alphabet == {"a"} \cup Whitespace

RECURSIVE StringsUpTo(_)
StringsUpTo(n) ==
    IF n = 0 THEN {<<>>}
    ELSE LET shorter == StringsUpTo(n - 1)
         IN shorter \cup {Append(s, ch) : s \in {t \in shorter : Len(t) = n - 1},
                                          ch \in Alphabet}

Min(a, b) == IF a <= b THEN a ELSE b

\* str.split() with no argument: the maximal runs of non-whitespace
\* characters, in order; no empty word is produced.
RECURSIVE SplitFrom(_, _, _, _)
SplitFrom(s, i, word, words) ==
    IF i > Len(s)
    THEN IF word = <<>> THEN words ELSE Append(words, word)
    ELSE IF s[i] \in Whitespace
         THEN SplitFrom(s, i + 1, <<>>,
                        IF word = <<>> THEN words ELSE Append(words, word))
         ELSE SplitFrom(s, i + 1, Append(word, s[i]), words)

Split(s) == SplitFrom(s, 1, <<>>, <<>>)

\* " ".join(parts)
RECURSIVE Join(_)
Join(parts) ==
    IF parts = <<>> THEN <<>>
    ELSE IF Len(parts) = 1 THEN parts[1]
    ELSE parts[1] \o <<" ">> \o Join(Tail(parts))

\* Python truthiness of the max_chunks argument: None and 0 are falsy.
NoneArg == [isNone |-> TRUE, val |-> 0]
IntArg(n) == [isNone |-> FALSE, val |-> n]
Truthy(arg) == ~arg.isNone /\ arg.val # 0

\* lst[:n] for n >= 0
SliceTo(lst, n) == SubSeq(lst, 1, Min(n, Len(lst)))

\* ================================================================ chunker
\* Mutant of ChunkLoop: the chunk is closed only once it exceeds max_words.
ChunkLoopStrict(words, i, current, acc, maxw) ==
    LET RECURSIVE Go(_, _, _)
        Go(k, cur0, a) ==
            IF k > Len(words) THEN <<a, cur0>>
            ELSE LET cur == Append(cur0, words[k])
                 IN IF Len(cur) > maxw
                    THEN Go(k + 1, <<>>, Append(a, Join(cur)))
                    ELSE Go(k + 1, cur, a)
    IN Go(i, current, acc)

\* The for loop of chunk_text: <<chunks, current>> after the words from i on.
RECURSIVE ChunkLoop(_, _, _, _, _)
ChunkLoop(words, i, current, acc, maxw) ==
    IF i > Len(words) THEN <<acc, current>>
    ELSE LET cur == Append(current, words[i])
         IN IF Len(cur) >= maxw
            THEN ChunkLoop(words, i + 1, <<>>, Append(acc, Join(cur)), maxw)
            ELSE ChunkLoop(words, i + 1, cur, acc, maxw)

\* engineering_pipeline.chunk_text(text, max_words, max_chunks=None)
chunk_text(t, maxw, maxc) ==
    LET looped == ChunkLoop(Split(t), 1, <<>>, <<>>, maxw)
        withTail == IF looped[2] # <<>>
                    THEN Append(looped[1], Join(looped[2]))
                    ELSE looped[1]
    IN IF Truthy(maxc) THEN SliceTo(withTail, maxc.val) ELSE withTail

\* pdf_pipeline.chunk_text(text, max_tokens): the same loop, no limit.
chunk_text_pdf(t, max_tokens) ==
    LET looped == ChunkLoop(Split(t), 1, <<>>, <<>>, max_tokens)
    IN IF looped[2] # <<>>
       THEN Append(looped[1], Join(looped[2]))
       ELSE looped[1]

InitChunk ==
    /\ RetrievalIdle
    /\ MergeIdle
    /\ SummIdle
    /\ IngestIdle
    /\ c_pc = "input"
    /\ text \in StringsUpTo(MaxTextLen)
    /\ max_words \in 0..MaxWords
    /\ max_chunks \in {NoneArg} \cup {IntArg(n) : n \in 0..MaxLimit}
    /\ chunks = <<>>

CallChunkText ==
    /\ c_pc = "input"
    /\ chunks' = chunk_text(text, max_words, max_chunks)
    /\ c_pc' = "chunked"
    /\ UNCHANGED <<text, max_words, max_chunks>>
    /\ UNCHANGED notChunk

CallChunkTextPdf ==
    /\ c_pc = "input"
    /\ max_chunks.isNone
    /\ chunks' = chunk_text_pdf(text, max_words)
    /\ c_pc' = "chunked_pdf"
    /\ UNCHANGED <<text, max_words, max_chunks>>
    /\ UNCHANGED notChunk

NextChunk == CallChunkText \/ CallChunkTextPdf

SpecChunk == InitChunk /\ [][NextChunk]_vars

\* ------------------------------------------------- chunker: properties
\* Number of words of a string: the positions where a word starts.
WordCount(s) ==
    Cardinality({i \in 1..Len(s) :
                    /\ s[i] \notin Whitespace
                    /\ (i = 1 \/ s[i - 1] \in Whitespace)})

\* The whitespace-normalized text: every run of whitespace becomes one
\* space, leading and trailing whitespace is removed.
RECURSIVE NormalizeFrom(_, _, _, _)
NormalizeFrom(s, i, out, gap) ==
    IF i > Len(s) THEN out
    ELSE IF s[i] \in Whitespace
         THEN NormalizeFrom(s, i + 1, out, out # <<>>)
         ELSE NormalizeFrom(s, i + 1,
                  (IF gap THEN Append(out, " ") ELSE out) \o <<s[i]>>, FALSE)

Normalize(s) == NormalizeFrom(s, 1, <<>>, FALSE)

ChunkBound ==
    /\ \A i \in 1..Len(chunks) : WordCount(chunks[i]) <= max_words
    /\ \A i \in 1..(Len(chunks) - 1) : WordCount(chunks[i]) = max_words
    /\ Join(chunks) = Normalize(text)

UnlimitedCallDone == c_pc \in {"chunked", "chunked_pdf"} /\ max_chunks.isNone

\* C7 (as stated): for every text and every max_words M, each chunk of
\* chunk_text(text, M) has at most M words, each chunk but the last has
\* exactly M words, and the chunks joined by single spaces are the
\* whitespace-normalized text.
C7_ChunkBoundAnyM == UnlimitedCallDone => ChunkBound

\* C7 (amended): the same for every max_words M >= 1.
C7_ChunkBoundPositiveM == (UnlimitedCallDone /\ max_words >= 1) => ChunkBound

C7_Witness ==
    /\ c_pc = "chunked"
    /\ max_chunks.isNone
    /\ max_words = 2
    /\ Len(chunks) = 2
    /\ WordCount(chunks[2]) = 1
    /\ text # Normalize(text)

\* C8: for every limit K that is provided, chunk_text(text, M, K) is the
\* first min(K, total_chunks) chunks of the unlimited call chunk_text(text, M).
C8_ChunkLimit ==
    (c_pc = "chunked" /\ ~max_chunks.isNone) =>
        LET unlimited == chunk_text(text, max_words, NoneArg)
            n == Min(max_chunks.val, Len(unlimited))
        IN /\ Len(chunks) = n
           /\ chunks = SubSeq(unlimited, 1, n)

\* The limit is honoured whenever it is at least 1.
C8_LimitAtLeastOne ==
    (c_pc = "chunked" /\ ~max_chunks.isNone /\ max_chunks.val >= 1) =>
        LET unlimited == chunk_text(text, max_words, NoneArg)
            n == Min(max_chunks.val, Len(unlimited))
        IN /\ Len(chunks) = n
           /\ chunks = SubSeq(unlimited, 1, n)

\* ================================================================== merge
\* An entry of a corpus list. A Unit is a dict entry; a loaded file may also
\* hold entries that are no dict (kind "other"). id stands for the uuid4 of
\* the Unit: the processing that created it (file name, run, how often in
\* the run) and its position.
Unit(path, pos, g) ==
    [kind |-> "dict", pdf_path |-> path, chunk_position |-> pos, id |-> <<g, pos>>]
NonDict == [kind |-> "other", pdf_path |-> "", chunk_position |-> 0, id |-> <<<<"", 0, 0>>, 0>>]

IsDict(e) == e.kind = "dict"
\* chunk.get('pdf_path', '')
GetPdfPath(e) == e.pdf_path

Positions == 0..1

RECURSIVE SeqsUpTo(_, _)
SeqsUpTo(S, n) ==
    IF n = 0 THEN {<<>>}
    ELSE LET shorter == SeqsUpTo(S, n - 1)
         IN shorter \cup {Append(q, x) : q \in {t \in shorter : Len(t) = n - 1},
                                         x \in S}

\* Mutant of merge_results: the new Units are appended, nothing is dropped.
merge_results_append(existing, new) ==
    IF new = <<>> THEN existing
    ELSE SelectSeq(existing, IsDict) \o SelectSeq(new, IsDict)

\* merge_results(existing_results, new_results); existing_results is always
\* a list here (every caller passes one).
merge_results(existing, new) ==
    IF new = <<>> THEN existing
    ELSE LET dicts == SelectSeq(existing, IsDict)
             new_pdf_name == IF IsDict(new[1]) THEN GetPdfPath(new[1]) ELSE ""
             OtherPdf(c) == IsDict(c) /\ GetPdfPath(c) # new_pdf_name
             kept == SelectSeq(dicts, OtherPdf)
         IN kept \o SelectSeq(new, IsDict)

InitMerge ==
    /\ RetrievalIdle
    /\ ChunkIdle
    /\ SummIdle
    /\ IngestIdle
    /\ m_pc = "input"
    /\ existing_results \in
           SeqsUpTo({Unit(p, i, <<p, 0, 1>>) : p \in PdfNames, i \in Positions} \cup {NonDict},
                    MaxExisting)
    /\ new_results \in
           SeqsUpTo({Unit(p, i, <<p, 1, 1>>) : p \in PdfNames, i \in Positions}, MaxIncoming)
    /\ merged = <<>>
    /\ merged_again = <<>>

CallMerge ==
    /\ m_pc = "input"
    /\ merged' = merge_results(existing_results, new_results)
    /\ m_pc' = "merged"
    /\ UNCHANGED <<existing_results, new_results, merged_again>>
    /\ UNCHANGED notMerge

CallMergeAgain ==
    /\ m_pc = "merged"
    /\ merged_again' = merge_results(merged, new_results)
    /\ m_pc' = "merged_twice"
    /\ UNCHANGED <<existing_results, new_results, merged>>
    /\ UNCHANGED notMerge

NextMerge == CallMerge \/ CallMergeAgain

SpecMerge == InitMerge /\ [][NextMerge]_vars

\* --------------------------------------------------- merge: properties
\* The reference operator of the claim, entry by entry: the Units of
\* `existing` of another source than `src`, in their order.
RECURSIVE UnitsOfOtherSource(_, _)
UnitsOfOtherSource(existing, src) ==
    IF existing = <<>> THEN <<>>
    ELSE LET rest == UnitsOfOtherSource(Tail(existing), src)
             e == Head(existing)
         IN IF e.kind = "dict" /\ e.pdf_path # src THEN <<e>> \o rest ELSE rest

ReferenceMerge(existing, incoming) ==
    IF Len(incoming) = 0 THEN existing
    ELSE UnitsOfOtherSource(existing, incoming[1].pdf_path) \o incoming

\* C2: merge(existing, incoming) is existing itself when incoming is empty,
\* and otherwise the Units of existing whose pdf_path differs from that of
\* incoming's first entry, in order, followed by the Units of incoming.
C2_MergeIsReference ==
    (m_pc \in {"merged", "merged_twice"}) =>
        merged = ReferenceMerge(existing_results, new_results)

C2_Witness ==
    /\ m_pc = "merged"
    /\ Len(new_results) = 2
    /\ new_results[1].chunk_position # new_results[2].chunk_position
    /\ \E i \in 1..Len(existing_results) :
           /\ IsDict(existing_results[i])
           /\ existing_results[i].pdf_path = new_results[1].pdf_path
    /\ \E i \in 1..Len(existing_results) :
           /\ IsDict(existing_results[i])
           /\ existing_results[i].pdf_path # new_results[1].pdf_path
    /\ \E i \in 1..Len(existing_results) : ~IsDict(existing_results[i])

\* All Units of the batch carry one source_id.
SameSource(units) ==
    \A i, j \in 1..Len(units) : units[i].pdf_path = units[j].pdf_path

\* The entries of `corpus` that carry source `src`, in order.
OfSource(corpus, src) ==
    LET Idx == {i \in 1..Len(corpus) : corpus[i].kind = "dict" /\ corpus[i].pdf_path = src}
        RECURSIVE Pick(_)
        Pick(i) == IF i > Len(corpus) THEN <<>>
                   ELSE IF i \in Idx THEN <<corpus[i]>> \o Pick(i + 1) ELSE Pick(i + 1)
    IN Pick(1)

\* C3: for a batch B of one source_id, merging B a second time changes
\* nothing, and the corpus holds exactly one copy of B's Units for that
\* source_id.
C3_MergeIdempotent ==
    (m_pc = "merged_twice" /\ SameSource(new_results)) =>
        /\ merged_again = merged
        /\ new_results # <<>> =>
               OfSource(merged_again, new_results[1].pdf_path) = new_results

C3_Witness ==
    /\ m_pc = "merged_twice"
    /\ Len(new_results) = 2
    /\ SameSource(new_results)
    /\ new_results[1].chunk_position # new_results[2].chunk_position
    /\ merged # existing_results \o new_results
    /\ \E i \in 1..Len(existing_results) :
           /\ IsDict(existing_results[i])
           /\ existing_results[i].pdf_path = new_results[1].pdf_path

\* ========================================================== summarization
\* stdout.strip() / stderr.strip()
RECURSIVE LStrip(_)
LStrip(str) ==
    IF str # <<>> /\ Head(str) \in Whitespace THEN LStrip(Tail(str)) ELSE str

RECURSIVE RStrip(_)
RStrip(str) ==
    IF str # <<>> /\ str[Len(str)] \in Whitespace
    THEN RStrip(SubSeq(str, 1, Len(str) - 1))
    ELSE str

Strip(str) == RStrip(LStrip(str))

\* What the external process may write, and what an exception may say.
Stdouts == {<<" ", "s", "\n">>}
Stderrs == {<<>>, <<"\n">>, <<"w", " ">>}
SpawnErrors == {[cls |-> "FileNotFoundError", msg |-> <<"N">>]}
CommErrors == {[cls |-> "OSError", msg |-> <<"P">>]}

\* str(n) for the attempt numbers that occur
ToStr(n) ==
    CASE n = 0 -> "0" [] n = 1 -> "1" [] n = 2 -> "2" [] n = 3 -> "3"
      [] n = 4 -> "4" [] n = 5 -> "5" [] n = 6 -> "6" [] n = 7 -> "7"
      [] n = 8 -> "8" [] n = 9 -> "9"

\* Mutant of ExceptClause: only the timeout is caught.
ExceptClauseTimeoutOnly(cls) ==
    IF cls = "TimeoutExpired" THEN "timeout" ELSE "uncaught"

\* The except clause that handles an exception raised in the try body: the
\* first matching one of `except subprocess.TimeoutExpired` and
\* `except Exception` (every class drawn here derives from Exception).
ExceptClause(cls) ==
    IF cls = "TimeoutExpired" THEN "timeout" ELSE "exception"

\* f"Timeout on attempt {attempt + 1}"
TimeoutMessage(att) == <<"Timeout on attempt ", ToStr(att + 1)>>

\* Mutant of SuccessRecord: output on the diagnostic stream is a failure.
SuccessRecordFailsOnStderr(stdout, stderr, att) ==
    IF Strip(stderr) # <<>>
    THEN [summary |-> <<>>, status |-> "failed", retries |-> att,
          error |-> Strip(stderr)]
    ELSE [summary |-> Strip(stdout), status |-> "success", retries |-> att,
          error |-> None]

\* Mutant of SuccessRecord: retries counts the attempts made.
SuccessRecordCountsAttempts(stdout, stderr, att) ==
    [summary |-> Strip(stdout), status |-> "success", retries |-> att + 1,
     error |-> IF Strip(stderr) # <<>> THEN Strip(stderr) ELSE None]

\* The record returned by the first attempt that neither times out nor raises.
SuccessRecord(stdout, stderr, att) ==
    [summary |-> Strip(stdout), status |-> "success", retries |-> att,
     error |-> IF Strip(stderr) # <<>> THEN Strip(stderr) ELSE None]

\* The record returned once the loop is exhausted.
FailedRecord(budget, err) ==
    [summary |-> <<>>, status |-> "failed", retries |-> budget, error |-> err]

\* Mutant of KilledState: the timed-out process is left running.
KilledStateNoKill(state) == state

\* process.kill() on the process of the attempt that timed out
KilledState(state) == "killed"

\* summarize_with_ollama is entered: last_error = "", the loop starts.
EnterSummarize ==
    /\ s_pc' = "loop"
    /\ attempt' = 0
    /\ last_error' = <<>>
    /\ procs' = <<>>
    /\ outcomes' = <<>>
    /\ recorded' = <<>>
    /\ summary' = NoSummary
    /\ streams' = NoStreams

\* The caller has taken the returned record: the locals of the call are gone.
LeaveSummarize ==
    /\ left_running' = (left_running \/ \E n \in 1..Len(procs) : procs[n] = "running")
    /\ s_pc' = "idle"
    /\ attempt' = 0
    /\ last_error' = <<>>
    /\ procs' = <<>>
    /\ outcomes' = <<>>
    /\ recorded' = <<>>
    /\ summary' = NoSummary
    /\ streams' = NoStreams

callerVars == <<RETRIES, p_pc, n_chunks, chunk_index, results, failed_chunks,
                made, left_running>>

\* An exception of class err.cls raised in the try body of this attempt,
\* the process of the attempt being left in state proc.
RaiseInTry(err, procs_after, how) ==
    /\ procs' = procs_after
    /\ outcomes' = Append(outcomes, how)
    /\ IF ExceptClause(err.cls) = "exception"
       THEN /\ last_error' = err.msg
            /\ recorded' = Append(recorded, err.msg)
            /\ attempt' = attempt + 1
            /\ s_pc' = "loop"
            /\ UNCHANGED p_pc
       ELSE /\ s_pc' = "raised"
            /\ p_pc' = "aborted"
            /\ UNCHANGED <<last_error, recorded, attempt>>
    /\ UNCHANGED <<RETRIES, n_chunks, chunk_index, results, failed_chunks, made,
                 left_running, summary, streams>>
    /\ UNCHANGED notSumm

\* subprocess.Popen(...) succeeds: the process of this attempt runs and the
\* call blocks in communicate.
Popen ==
    /\ s_pc = "loop"
    /\ attempt <= RETRIES
    /\ procs' = Append(procs, "running")
    /\ s_pc' = "communicate"
    /\ UNCHANGED <<attempt, last_error, summary, streams, outcomes, recorded>>
    /\ UNCHANGED callerVars
    /\ UNCHANGED notSumm

\* subprocess.Popen(...) raises: no process exists for this attempt.
PopenFails ==
    /\ s_pc = "loop"
    /\ attempt <= RETRIES
    /\ \E err \in SpawnErrors : RaiseInTry(err, Append(procs, "none"), "spawn_error")

\* communicate returns within the timeout: the attempt succeeds.
CommunicateReturns ==
    /\ s_pc = "communicate"
    /\ \E stdout \in Stdouts, stderr \in Stderrs :
           /\ summary' = SuccessRecord(stdout, stderr, attempt)
           /\ streams' = [stdout |-> stdout, stderr |-> stderr]
    /\ procs' = [procs EXCEPT ![Len(procs)] = "exited"]
    /\ outcomes' = Append(outcomes, "ok")
    /\ s_pc' = "returned"
    /\ UNCHANGED <<attempt, last_error, recorded>>
    /\ UNCHANGED callerVars
    /\ UNCHANGED notSumm

\* communicate raises TimeoutExpired: control is in the handler, the
\* process still runs.
CommunicateTimesOut ==
    /\ s_pc = "communicate"
    /\ outcomes' = Append(outcomes, "timeout")
    /\ IF ExceptClause("TimeoutExpired") = "timeout"
       THEN s_pc' = "timeout_caught" /\ UNCHANGED p_pc
       ELSE s_pc' = "raised" /\ p_pc' = "aborted"
    /\ UNCHANGED <<attempt, last_error, summary, streams, procs, recorded>>
    /\ UNCHANGED <<RETRIES, n_chunks, chunk_index, results, failed_chunks, made,
                 left_running>>
    /\ UNCHANGED notSumm

\* except subprocess.TimeoutExpired: process.kill(), last_error is set, the
\* loop goes on.
HandleTimeout ==
    /\ s_pc = "timeout_caught"
    /\ procs' = [procs EXCEPT ![Len(procs)] = KilledState(@)]
    /\ last_error' = TimeoutMessage(attempt)
    /\ recorded' = Append(recorded, TimeoutMessage(attempt))
    /\ attempt' = attempt + 1
    /\ s_pc' = "loop"
    /\ UNCHANGED <<summary, streams, outcomes>>
    /\ UNCHANGED callerVars
    /\ UNCHANGED notSumm

\* communicate raises another exception: nothing ends the process, which
\* may still run or may have exited.
CommunicateRaises ==
    /\ s_pc = "communicate"
    /\ \E err \in CommErrors, left \in {"running", "exited"} :
           RaiseInTry(err, [procs EXCEPT ![Len(procs)] = left], "comm_error")

\* The loop is exhausted: the failed record is returned.
ReturnFailed ==
    /\ s_pc = "loop"
    /\ attempt > RETRIES
    /\ summary' = FailedRecord(RETRIES, last_error)
    /\ s_pc' = "returned"
    /\ UNCHANGED <<attempt, last_error, streams, procs, outcomes, recorded>>
    /\ UNCHANGED callerVars
    /\ UNCHANGED notSumm

\* ------------------------------------------------------------ the callers
\* The Unit process_pdf builds from a returned record: a fresh uuid4, the
\* position, the chunk (text_preview is its beginning), the fields the
\* summarization decides, and the file name of the PDF.
UnitOf(pos, rec) ==
    [id |-> <<"uuid4", pos>>, chunk_position |-> pos, chunk_text |-> <<"chunk", pos>>,
     summary_text |-> rec.summary, status |-> rec.status, retries |-> rec.retries,
     error |-> rec.error, pdf_path |-> "a.pdf"]

\* Mutant of Retried: the Unit is built anew from the returned record.
RetriedAsNewUnit(unit, rec) ==
    [unit EXCEPT !.id = <<"uuid4", "retry", unit.chunk_position>>,
                 !.summary_text = rec.summary, !.status = rec.status,
                 !.retries = @ + 1, !.error = rec.error]

\* retry_failed_chunks: the update of a failed Unit from a returned record.
Retried(unit, rec) ==
    [unit EXCEPT !.summary_text = rec.summary, !.status = rec.status,
                 !.retries = @ + 1, !.error = rec.error]

\* [c for c in all_results if c['status'] == 'failed'], as indices
RECURSIVE FailedFrom(_, _)
FailedFrom(units, k) ==
    IF k > Len(units) THEN <<>>
    ELSE IF units[k].status = "failed"
         THEN <<k>> \o FailedFrom(units, k + 1)
         ELSE FailedFrom(units, k + 1)

InitSumm ==
    /\ RetrievalIdle
    /\ ChunkIdle
    /\ MergeIdle
    /\ IngestIdle
    /\ RETRIES \in 0..MaxRetries
    /\ p_pc = "process_pdf"
    /\ n_chunks \in 0..MaxChunks
    /\ chunk_index = 0
    /\ results = <<>>
    /\ failed_chunks = <<>>
    /\ made = <<>>
    /\ left_running = FALSE
    /\ s_pc = "idle"
    /\ attempt = 0
    /\ last_error = <<>>
    /\ summary = NoSummary
    /\ streams = NoStreams
    /\ procs = <<>>
    /\ outcomes = <<>>
    /\ recorded = <<>>

\* process_pdf: summary = summarize_with_ollama(chunk, i)
ProcessPdfSummarize ==
    /\ p_pc = "process_pdf"
    /\ s_pc = "idle"
    /\ chunk_index < n_chunks
    /\ EnterSummarize
    /\ UNCHANGED callerVars
    /\ UNCHANGED notSumm

\* process_pdf: results.append({...}) and the next chunk
ProcessPdfAppend ==
    /\ p_pc = "process_pdf"
    /\ s_pc = "returned"
    /\ results' = Append(results, UnitOf(chunk_index, summary))
    /\ made' = Append(made, Len(outcomes))
    /\ chunk_index' = chunk_index + 1
    /\ LeaveSummarize
    /\ UNCHANGED <<RETRIES, p_pc, n_chunks, failed_chunks>>
    /\ UNCHANGED notSumm

\* process_pdf returns; retry_failed_chunks(pdf_results) collects the failed.
ProcessPdfReturn ==
    /\ p_pc = "process_pdf"
    /\ s_pc = "idle"
    /\ chunk_index = n_chunks
    /\ p_pc' = "retry_failed_chunks"
    /\ failed_chunks' = FailedFrom(results, 1)
    /\ UNCHANGED <<RETRIES, n_chunks, chunk_index, results, made, left_running>>
    /\ UNCHANGED <<s_pc, attempt, last_error, summary, streams, procs, outcomes,
                 recorded>>
    /\ UNCHANGED notSumm

\* retry_failed_chunks: summary_result = summarize_with_ollama(...)
RetrySummarize ==
    /\ p_pc = "retry_failed_chunks"
    /\ s_pc = "idle"
    /\ failed_chunks # <<>>
    /\ EnterSummarize
    /\ UNCHANGED callerVars
    /\ UNCHANGED notSumm

\* retry_failed_chunks: the failed Unit is updated in place.
RetryUpdate ==
    /\ p_pc = "retry_failed_chunks"
    /\ s_pc = "returned"
    /\ results' = [results EXCEPT ![Head(failed_chunks)] = Retried(@, summary)]
    /\ made' = [made EXCEPT ![Head(failed_chunks)] = @ + Len(outcomes)]
    /\ failed_chunks' = Tail(failed_chunks)
    /\ LeaveSummarize
    /\ UNCHANGED <<RETRIES, p_pc, n_chunks, chunk_index>>
    /\ UNCHANGED notSumm

\* retry_failed_chunks returns all_results.
RetryReturn ==
    /\ p_pc = "retry_failed_chunks"
    /\ s_pc = "idle"
    /\ failed_chunks = <<>>
    /\ p_pc' = "done"
    /\ UNCHANGED <<RETRIES, n_chunks, chunk_index, results, failed_chunks, made,
                 left_running>>
    /\ UNCHANGED <<s_pc, attempt, last_error, summary, streams, procs, outcomes,
                 recorded>>
    /\ UNCHANGED notSumm

NextSumm ==
    \/ ProcessPdfSummarize
    \/ ProcessPdfAppend
    \/ ProcessPdfReturn
    \/ RetrySummarize
    \/ RetryUpdate
    \/ RetryReturn
    \/ Popen
    \/ PopenFails
    \/ CommunicateReturns
    \/ CommunicateTimesOut
    \/ HandleTimeout
    \/ CommunicateRaises
    \/ ReturnFailed

SpecSumm == InitSumm /\ [][NextSumm]_vars

\* ------------------------------------------- summarization: properties
\* The attempts of the current call that ended by now.
Attempts == Len(outcomes)

\* C1: when summarize_with_ollama has returned: if attempt k is the first
\* that neither timed out nor raised, the record is a success with
\* retries = k - 1 and k attempts were made; if none of the RETRIES + 1
\* attempts succeeded, the record is {summary "", failed, retries RETRIES,
\* error of the last attempt} after exactly RETRIES + 1 attempts.
C1_SummarizeOutcome ==
    (s_pc = "returned") =>
        IF \E k \in 1..Attempts : outcomes[k] = "ok"
        THEN LET k == CHOOSE j \in 1..Attempts : outcomes[j] = "ok"
             IN /\ \A j \in 1..Attempts : outcomes[j] = "ok" => j = k
                /\ k <= RETRIES + 1
                /\ summary.status = "success"
                /\ summary.retries = k - 1
                /\ Attempts = k
                /\ Len(procs) = k
        ELSE /\ Attempts = RETRIES + 1
             /\ Len(procs) = RETRIES + 1
             /\ Len(recorded) = RETRIES + 1
             /\ summary.summary = <<>>
             /\ summary.status = "failed"
             /\ summary.retries = RETRIES
             /\ summary.error = recorded[RETRIES + 1]

C1_Witness ==
    /\ s_pc = "returned"
    /\ RETRIES = 2
    /\ outcomes = <<"timeout", "comm_error", "ok">>
    /\ summary.retries = 2

C1_WitnessExhausted ==
    /\ s_pc = "returned"
    /\ RETRIES = 1
    /\ outcomes = <<"spawn_error", "timeout">>
    /\ summary.status = "failed"

\* The external processes of this ingestion that are alive: those of the
\* current call that run, and one at least of an earlier call if any was
\* left running.
Alive ==
    Cardinality({n \in 1..Len(procs) : procs[n] = "running"})
        + (IF left_running THEN 1 ELSE 0)

\* C23: at every moment of the ingestion of a PDF (process_pdf, then
\* retry_failed_chunks) at most one external generation process is alive,
\* however the attempts ended.
C23_NoOverlap == Alive <= 1

\* A process that runs is the one the current attempt waits for (or is
\* about to kill), or that of an attempt communicate ended with an
\* exception other than the timeout.
C23_RunningOnlyCurrentOrAfterException ==
    /\ \A n \in 1..Len(procs) :
           procs[n] = "running" =>
               \/ n = Len(procs) /\ s_pc \in {"communicate", "timeout_caught"}
               \/ n <= Len(outcomes) /\ outcomes[n] = "comm_error"
    /\ (\A n \in 1..Len(outcomes) : outcomes[n] # "comm_error") =>
           Cardinality({n \in 1..Len(procs) : procs[n] = "running"}) <= 1

\* communicate raised, the process was left running, the next attempt has
\* spawned another.
C23_TwoAlive ==
    /\ s_pc = "communicate"
    /\ outcomes = <<"comm_error">>
    /\ procs = <<"running", "running">>

\* A process left running by a call of process_pdf is alive while the
\* retry pass waits for another.
C23_AliveIntoRetryPass ==
    /\ p_pc = "retry_failed_chunks"
    /\ left_running
    /\ s_pc = "communicate"
    /\ procs = <<"running">>

\* One step of retry_failed_chunks as C25 allows it.
RetryFrame ==
    /\ Len(results') = Len(results)
    /\ \A k \in 1..Len(results) :
           /\ results[k].status = "success" => results'[k] = results[k]
           /\ results'[k].id = results[k].id
           /\ results'[k].chunk_position = results[k].chunk_position
           /\ results'[k].chunk_text = results[k].chunk_text
           /\ results'[k].pdf_path = results[k].pdf_path

\* C25: every step of retry_failed_chunks leaves a Unit whose status is
\* success unchanged, changes of a failed Unit at most summary_text, status,
\* retries and error (never id, chunk_position, chunk_text or pdf_path),
\* and keeps the Units in their order and number.
C25_RetryInPlace == [][p_pc = "retry_failed_chunks" => RetryFrame]_vars

\* The retry pass is over: it summarized the first Unit, which the first
\* pass had failed, and the second is as the first pass left it.
C25_Witness ==
    /\ p_pc = "done"
    /\ RETRIES = 1
    /\ Len(results) = 2
    /\ results[1].status = "success"
    /\ results[1].retries = 2
    /\ results[1].id = <<"uuid4", 0>>
    /\ results[2].status = "success"
    /\ results[2].retries = 0
    /\ results[2].id = <<"uuid4", 1>>

\* C21: once ingestion of the PDF is done (process_pdf, then
\* retry_failed_chunks), the retries value stored in every Unit is the
\* number of summarization attempts made for that Unit minus one.
C21_RetriesCountAttempts ==
    (p_pc = "done") =>
        \A k \in 1..Len(results) : results[k].retries = made[k] - 1

\* What is stored: the attempts minus one for a Unit the first pass
\* summarized, RETRIES + 1 for a Unit the retry pass went over, however
\* many attempts that pass made.
C21_RetriesAsStored ==
    (p_pc = "done") =>
        /\ Len(made) = Len(results)
        /\ \A k \in 1..Len(results) :
               results[k].retries =
                   IF made[k] <= RETRIES + 1 THEN made[k] - 1 ELSE RETRIES + 1

\* A Unit failed by the first pass and summarized by the second attempt of
\* the retry pass: four attempts, retries 2.
C21_LaterRetryAttempt ==
    /\ p_pc = "done"
    /\ RETRIES = 1
    /\ Len(results) = 1
    /\ results[1].status = "success"
    /\ results[1].retries = 2
    /\ made[1] = 4

\* C9: once a later attempt has been started or the function has returned,
\* the process of every attempt N that timed out has been killed, and the
\* error recorded for that attempt is "Timeout on attempt N".
C9_TimeoutKillsFirst ==
    \A n \in 1..Attempts :
        (outcomes[n] = "timeout" /\ (Len(procs) > n \/ s_pc = "returned")) =>
            /\ procs[n] = "killed"
            /\ Len(recorded) >= n
            /\ recorded[n] = <<"Timeout on attempt ", ToStr(n)>>

C9_Witness ==
    /\ s_pc = "communicate"
    /\ outcomes = <<"comm_error", "timeout">>
    /\ Len(procs) = 3
    /\ procs[2] = "killed"
    /\ procs[3] = "running"

\* C10: whatever the attempts do, summarize_with_ollama returns a record of
\* status success or failed, no exception leaves it for process_pdf or
\* retry_failed_chunks, and every chunk of the PDF is ingested.
C10_FailureContained ==
    /\ s_pc # "raised"
    /\ p_pc # "aborted"
    /\ s_pc = "returned" => summary.status \in {"success", "failed"}
    /\ p_pc \in {"retry_failed_chunks", "done"} =>
           /\ Len(results) = n_chunks
           /\ \A k \in 1..Len(results) :
                  /\ results[k].chunk_position = k - 1
                  /\ results[k].status \in {"success", "failed"}

C10_Witness ==
    /\ p_pc = "done"
    /\ n_chunks = 2
    /\ results[1].status = "failed"
    /\ results[1].error = <<"Timeout on attempt ", "2">>
    /\ results[2].status = "success"

\* t is s without its leading and trailing whitespace.
IsTrimOf(t, s) ==
    \E i \in 1..(Len(s) + 1), j \in 0..Len(s) :
        /\ t = SubSeq(s, i, j)
        /\ \A k \in 1..Len(s) : (k < i \/ k > j) => s[k] \in Whitespace
        /\ t # <<>> => (t[1] \notin Whitespace /\ t[Len(t)] \notin Whitespace)

\* C11: when the attempt whose communicate returned ends the call, the
\* record is a success whatever the diagnostic stream held: summary is the
\* trimmed stdout, error is the trimmed stderr when that is non-empty and
\* None otherwise.
C11_AdvisoryDiagnostics ==
    (s_pc = "returned" /\ Attempts > 0 /\ outcomes[Attempts] = "ok") =>
        /\ summary.status = "success"
        /\ IsTrimOf(summary.summary, streams.stdout)
        /\ \/ summary.error = None /\ IsTrimOf(<<>>, streams.stderr)
           \/ /\ summary.error # None
              /\ summary.error # <<>>
              /\ IsTrimOf(summary.error, streams.stderr)

C11_Witness ==
    /\ s_pc = "returned"
    /\ outcomes = <<"timeout", "ok">>
    /\ streams.stderr = <<"w", " ">>
    /\ summary.status = "success"
    /\ summary.summary = <<"s">>
    /\ summary.error = <<"w">>

C11_WitnessBlankStderr ==
    /\ s_pc = "returned"
    /\ streams.stderr = <<"\n">>
    /\ summary.status = "success"
    /\ summary.error = None

\* ============================================================== ingestion
\* The paths a run may be given; two of them share a file name.
PdfPaths == {"x/a.pdf", "y/a.pdf", "x/b.pdf"}

\* os.path.basename(pdf_path)
Basename(path) ==
    CASE path = "x/a.pdf" -> "a.pdf"
      [] path = "y/a.pdf" -> "a.pdf"
      [] path = "x/b.pdf" -> "b.pdf"

\* Mutant of load_existing_results: only a bare array is accepted.
load_existing_results_list_only(f) ==
    IF ~f.exists THEN <<>>
    ELSE IF f.shape = "list" THEN f.items
    ELSE <<>>

\* load_existing_results(output_file) on a file json.load can parse
load_existing_results(f) ==
    IF ~f.exists THEN <<>>
    ELSE IF f.shape = "list" THEN f.items
    ELSE IF f.shape = "summaries" THEN f.items
    ELSE <<>>

\* Mutant of process_pdf: the positions count down from n - 1.
process_pdf_descending(path, n, g) == [k \in 1..n |-> Unit(Basename(path), n - k, g)]

\* The results of process_pdf(pdf_path) for a PDF of n chunks, in the g-th
\* call: positions 0..n-1 from enumerate, pdf_path the file name, fresh ids.
\* retry_failed_chunks then changes summary_text, status, retries and error
\* only, which these Units do not carry.
process_pdf(path, n, g) == [k \in 1..n |-> Unit(Basename(path), k - 1, g)]

\* What makes the uuid4s of a process_pdf call fresh: the file name, the run
\* and how often the run has processed that file name.
CallStamp(path) == <<Basename(path), runs, batch[Basename(path)].times + 1>>

InitIngest ==
    /\ RetrievalIdle
    /\ ChunkIdle
    /\ MergeIdle
    /\ SummIdle
    /\ append = TRUE
    /\ file \in {AbsentFile, ListFile(<<>>)}
    /\ i_pc = "idle"
    /\ all_results = <<>>
    /\ n_done = 0
    /\ written = 0
    /\ runs = 0
    /\ batch = [name \in PdfNames |-> NotProcessed]
    /\ run_end = "none"
    /\ old_file = AbsentFile
    /\ seen = NothingSeen

\* process_multiple_pdfs starts: all_results is the loaded corpus when
\* append is set and the file exists, and empty otherwise.
StartRun ==
    /\ i_pc = "idle"
    /\ runs < MaxRuns
    /\ \E flag \in BOOLEAN :
           /\ (flag /\ file.exists) => file.complete
           /\ append' = flag
           /\ all_results' = IF flag /\ file.exists
                             THEN load_existing_results(file)
                             ELSE <<>>
    /\ i_pc' = "processing"
    /\ n_done' = 0
    /\ runs' = runs + 1
    /\ batch' = [name \in PdfNames |-> NotProcessed]
    /\ run_end' = "running"
    /\ old_file' = AbsentFile
    /\ seen' = NothingSeen
    /\ UNCHANGED <<file, written>>
    /\ UNCHANGED notIngest

\* process_multiple_pdfs starts with append set on a file json.load cannot
\* parse: the exception leaves the function, nothing is written.
StartRunLoadRaises ==
    /\ i_pc = "idle"
    /\ runs < MaxRuns
    /\ file.exists /\ ~file.complete
    /\ append' = TRUE
    /\ runs' = runs + 1
    /\ run_end' = "load_raised"
    /\ batch' = [name \in PdfNames |-> NotProcessed]
    /\ old_file' = AbsentFile
    /\ seen' = NothingSeen
    /\ UNCHANGED <<file, i_pc, all_results, n_done, written>>
    /\ UNCHANGED notIngest

\* The next entry of pdf_paths does not exist: it is skipped.
SkipMissingPdf ==
    /\ i_pc = "processing"
    /\ n_done < MaxPdfs
    /\ n_done' = n_done + 1
    /\ UNCHANGED <<append, file, i_pc, all_results, written, runs, batch, run_end,
                   old_file, seen>>
    /\ UNCHANGED notIngest

\* The next entry of pdf_paths is processed: process_pdf,
\* retry_failed_chunks, merge_results.
ProcessPdf ==
    /\ i_pc = "processing"
    /\ n_done < MaxPdfs
    /\ \E path \in PdfPaths, n \in 0..MaxChunks :
           LET pdf_results == process_pdf(path, n, CallStamp(path))
           IN /\ all_results' = merge_results(all_results, pdf_results)
              /\ batch' = [batch EXCEPT ![Basename(path)] =
                               [times |-> @.times + 1, units |-> pdf_results]]
    /\ n_done' = n_done + 1
    /\ UNCHANGED <<append, file, i_pc, written, runs, run_end, old_file, seen>>
    /\ UNCHANGED notIngest

\* process_pdf raises (the PDF cannot be read): the except clause of the
\* loop body prints the error, all_results is not touched.
ProcessPdfRaises ==
    /\ i_pc = "processing"
    /\ n_done < MaxPdfs
    /\ n_done' = n_done + 1
    /\ UNCHANGED <<append, file, i_pc, all_results, written, runs, batch, run_end,
                   old_file, seen>>
    /\ UNCHANGED notIngest

\* The loop over pdf_paths is over; open(output_file, "w"): the file exists
\* and is empty.
SaveOpen ==
    /\ i_pc = "processing"
    /\ old_file' = file
    /\ file' = TornFile
    /\ written' = 0
    /\ n_done' = 0
    /\ i_pc' = "saving"
    /\ seen' = NothingSeen
    /\ UNCHANGED <<append, all_results, runs, batch, run_end>>
    /\ UNCHANGED notIngest

\* json.dump writes the next entry of all_results: the file holds the
\* beginning of a JSON array, which no load can parse.
SaveWrite ==
    /\ i_pc = "saving"
    /\ written < Len(all_results)
    /\ written' = written + 1
    /\ UNCHANGED <<append, file, i_pc, all_results, n_done, runs, batch, run_end, old_file, seen>>
    /\ UNCHANGED notIngest

\* json.dump has written everything and the with block closes the file.
SaveClose ==
    /\ i_pc = "saving"
    /\ written = Len(all_results)
    /\ file' = ListFile(all_results)
    /\ i_pc' = "idle"
    /\ run_end' = "saved"
    /\ written' = 0
    /\ UNCHANGED <<append, all_results, n_done, runs, batch, old_file, seen>>
    /\ UNCHANGED notIngest

\* The writing process is interrupted during the save.
InterruptSave ==
    /\ i_pc = "saving"
    /\ i_pc' = "idle"
    /\ run_end' = "interrupted"
    /\ written' = 0
    /\ UNCHANGED <<append, file, all_results, n_done, runs, batch, old_file, seen>>
    /\ UNCHANGED notIngest

\* Another process loads the corpus file.
ReaderLoad ==
    /\ i_pc \in {"idle", "saving"}
    /\ seen' = IF ~file.exists THEN [state |-> "missing", items |-> <<>>]
               ELSE IF ~file.complete THEN [state |-> "unreadable", items |-> <<>>]
               ELSE [state |-> "corpus", items |-> load_existing_results(file)]
    /\ seen' # seen
    /\ UNCHANGED <<append, file, i_pc, all_results, n_done, written, runs, batch,
                   run_end, old_file>>
    /\ UNCHANGED notIngest

Next ==
    \/ StartRun
    \/ StartRunLoadRaises
    \/ SkipMissingPdf
    \/ ProcessPdf
    \/ ProcessPdfRaises
    \/ SaveOpen
    \/ SaveWrite
    \/ SaveClose
    \/ InterruptSave
    \/ ReaderLoad

Spec == InitIngest /\ [][Next]_vars

\* ----------------------------------------------- ingestion: properties
\* No two Units of the corpus share pdf_path and chunk_position.
NoSharedPosition(corpus) ==
    \A k, l \in 1..Len(corpus) :
        (k # l /\ corpus[k].kind = "dict" /\ corpus[l].kind = "dict") =>
            ~(/\ corpus[k].pdf_path = corpus[l].pdf_path
              /\ corpus[k].chunk_position = corpus[l].chunk_position)

\* C4: starting from an absent or empty corpus file, over any runs (any PDF
\* list, the same PDF or file name more than once, append on or off), no
\* two Units of all_results or of the corpus file share both pdf_path and
\* chunk_position.
C4_CorpusUnique ==
    /\ NoSharedPosition(all_results)
    /\ NoSharedPosition(file.items)

C4_Witness ==
    /\ run_end = "saved"
    /\ runs = 2
    /\ old_file.complete
    /\ OfSource(old_file.items, "a.pdf") # <<>>
    /\ batch["a.pdf"].times = 2
    /\ Len(batch["a.pdf"].units) = 2
    /\ OfSource(file.items, "a.pdf") = batch["a.pdf"].units
    /\ OfSource(file.items, "b.pdf") # <<>>

\* C5: after a run that re-processed a source S (here: processed it once,
\* whatever the corpus held for S before), the saved corpus holds for S
\* exactly the Units that processing produced, also when it produced none.
C5_ReingestReplaces ==
    (run_end = "saved") =>
        \A name \in PdfNames :
            batch[name].times = 1 =>
                OfSource(file.items, name) = batch[name].units

\* C5 holds whenever the processing produced at least one chunk.
C5_ReplacesWhenChunks ==
    (run_end = "saved") =>
        \A name \in PdfNames :
            (batch[name].times = 1 /\ batch[name].units # <<>>) =>
                OfSource(file.items, name) = batch[name].units

\* C6: a load of the corpus file made since a save began on a complete
\* file returns the complete old corpus or the complete new corpus.
C6_SaveAtomic ==
    (/\ seen.state # "none"
     /\ old_file.exists /\ old_file.complete
     /\ i_pc = "saving" \/ (i_pc = "idle" /\ run_end \in {"saved", "interrupted"})) =>
        /\ seen.state = "corpus"
        /\ seen.items \in {load_existing_results(old_file), all_results}

\* ================================================================ scoring
\* str.lower() on the characters that occur
ToLower(ch) == CASE ch = "A" -> "a" [] OTHER -> ch

Lower(str) == [i \in 1..Len(str) |-> ToLower(str[i])]

\* `word in text` for strings: word occurs as a contiguous run of text
Contains(str, word) ==
    \E i \in 0..(Len(str) - Len(word)) : SubSeq(str, i + 1, i + Len(word)) = word

ScoreAlphabet == {"a", "A", "b", " "}

RECURSIVE StringsOver(_, _)
StringsOver(S, n) ==
    IF n = 0 THEN {<<>>}
    ELSE LET shorter == StringsOver(S, n - 1)
         IN shorter \cup {Append(str, ch) : str \in {t \in shorter : Len(t) = n - 1},
                                            ch \in S}

\* sum(word in text_lower for word in query_words)
RECURSIVE CountFound(_, _)
CountFound(query_words, text_lower) ==
    IF query_words = <<>> THEN 0
    ELSE (IF Contains(text_lower, Head(query_words)) THEN 1 ELSE 0)
         + CountFound(Tail(query_words), text_lower)

\* score_chunk(query_words, text) of query_chunks.py; retrieval_bullets.py
\* and retrieval_v2.py hold the same function.
score_chunk(query_words, str) == CountFound(query_words, Lower(str))

\* query_words = query.lower().split()
QueryWords(q) == Split(Lower(q))

InitScore ==
    /\ OnlyScore
    /\ k_pc = "input"
    /\ query \in StringsOver(ScoreAlphabet, MaxQueryLen)
    /\ summary_text \in StringsOver(ScoreAlphabet, MaxSummaryLen)
    /\ score = 0

\* search: score = score_chunk(query_words, summary)
CallScoreChunk ==
    /\ k_pc = "input"
    /\ score' = score_chunk(QueryWords(query), summary_text)
    /\ k_pc' = "scored"
    /\ UNCHANGED <<query, summary_text>>
    /\ UNCHANGED notScore

NextScore ==
    \/ CallScoreChunk

SpecScore == InitScore /\ [][NextScore]_vars

\* --------------------------------------------------- scoring: properties
\* The distinct terms of a query.
Terms(q) == {QueryWords(q)[i] : i \in 1..Len(QueryWords(q))}

MatchedTerms(q, str) == {w \in Terms(q) : Contains(Lower(str), w)}

\* C12: the score is the number of distinct query terms that occur in the
\* lowercased summary, each counted once however often it occurs in the
\* summary or in the query.
C12_ScoreCountsDistinctTerms ==
    (k_pc = "scored") => score = Cardinality(MatchedTerms(query, summary_text))

\* The score is the number of entries of the query's word list that occur
\* in the lowercased summary, however often each occurs in the summary.
C12_ScoreCountsQueryWords ==
    (k_pc = "scored") =>
        score = Cardinality({i \in 1..Len(QueryWords(query)) :
                                Contains(Lower(summary_text), QueryWords(query)[i])})

\* A term repeated in the query is counted once per repetition.
C12_RepeatedTermReached ==
    /\ k_pc = "scored"
    /\ query = <<"a", " ", "A">>
    /\ summary_text = <<"b", "A">>
    /\ score = 2

\* Two terms against a summary with both, and against one with only one.
C12_BothTermsReached ==
    /\ k_pc = "scored"
    /\ query = <<"a", " ", "b">>
    /\ summary_text = <<"b", "A", "a">>
    /\ score = 2

\* ========================================================= lexical search
\* An optional string argument (pdf_filter).
NoFilter == [isNone |-> TRUE, val |-> <<>>]
StrArg(str) == [isNone |-> FALSE, val |-> str]
\* `if pdf_filter:` : None and "" are falsy.
TruthyStr(arg) == ~arg.isNone /\ arg.val # <<>>

\* A key the dict does not have.
Absent == <<"<absent>">>
\* chunk.get(key, default) / chunk.get(key) or default-after-or
Get(value, default) == IF value = Absent THEN default ELSE value

\* A Unit as the search functions read it: pdf_path and summary_text, or
\* summary in a corpus written with the older field name.
SearchUnit(path, summ) == [pdf_path |-> path, summary_text |-> summ, summary |-> Absent]
LegacyUnit(path, summ) == [pdf_path |-> path, summary_text |-> Absent, summary |-> summ]

\* chunk.get("summary_text") or chunk.get("summary", "")
SummaryOf(chunk) ==
    IF chunk.summary_text # Absent /\ chunk.summary_text # <<>>
    THEN chunk.summary_text
    ELSE Get(chunk.summary, <<>>)

\* os.path.basename(pdf_path): what follows the last "/"
RECURSIVE basename(_)
basename(path) ==
    IF \E i \in 1..Len(path) : path[i] = "/"
    THEN basename(Tail(path))
    ELSE path

\* Mutant of SortPlace: an entry goes before the entries of equal score.
SortPlaceBeforeTies(sorted, e) ==
    IF \E j \in 1..Len(sorted) : sorted[j][1] <= e[1]
    THEN CHOOSE j \in 1..Len(sorted) :
             /\ sorted[j][1] <= e[1]
             /\ \A m \in 1..(j - 1) : sorted[m][1] > e[1]
    ELSE Len(sorted) + 1

\* list.sort(key=lambda x: x[0], reverse=True) is stable: an entry is placed
\* after every entry whose score is >= its own, before the first one whose
\* score is lower.
SortPlace(sorted, e) ==
    IF \E j \in 1..Len(sorted) : sorted[j][1] < e[1]
    THEN CHOOSE j \in 1..Len(sorted) :
             /\ sorted[j][1] < e[1]
             /\ \A m \in 1..(j - 1) : sorted[m][1] >= e[1]
    ELSE Len(sorted) + 1

InsertAt(lst, j, e) == SubSeq(lst, 1, j - 1) \o <<e>> \o SubSeq(lst, j, Len(lst))

RECURSIVE SortFrom(_, _, _)
SortFrom(lst, i, sorted) ==
    IF i > Len(lst) THEN sorted
    ELSE SortFrom(lst, i + 1, InsertAt(sorted, SortPlace(sorted, lst[i]), lst[i]))

\* scored.sort(key=lambda x: x[0], reverse=True)
SortByScore(lst) == SortFrom(lst, 1, <<>>)

\* The loop of search over chunks[i..]: the entries appended to scored.
RECURSIVE SearchLoop(_, _, _, _, _)
SearchLoop(query_words, chs, filt, i, acc) ==
    IF i > Len(chs) THEN acc
    ELSE LET chunk == chs[i]
             pdf_name == basename(Get(chunk.pdf_path, <<>>))
             summ == SummaryOf(chunk)
             sc == score_chunk(query_words, summ)
         IN IF TruthyStr(filt) /\ ~Contains(Lower(pdf_name), Lower(filt.val))
            THEN SearchLoop(query_words, chs, filt, i + 1, acc)
            ELSE IF summ = <<>>
            THEN SearchLoop(query_words, chs, filt, i + 1, acc)
            ELSE IF sc > 0
            THEN SearchLoop(query_words, chs, filt, i + 1,
                            Append(acc, <<sc, i>>))
            ELSE SearchLoop(query_words, chs, filt, i + 1, acc)

\* search(query, chunks, top_k, pdf_filter) of query_chunks.py
search(q, chs, k, filt) ==
    SliceTo(SortByScore(SearchLoop(QueryWords(q), chs, filt, 1, <<>>)), k)

\* search_chunks(query, chunks, top_k) of retrieval_v2.py: the same loop
\* with no filter.
search_chunks_v2(q, chs, k) ==
    SliceTo(SortByScore(SearchLoop(QueryWords(q), chs, NoFilter, 1, <<>>)), k)

SearchPaths == {<<"A">>, <<"a", "/", "b">>}
SearchSummaries == {<<>>, <<"a">>, <<"b", " ", "A">>}
SearchUnits ==
    {SearchUnit(path, summ) : path \in SearchPaths, summ \in SearchSummaries}
        \cup {LegacyUnit(<<"A">>, <<"b">>)}
SearchQueries == {<<"A", " ", "b">>, <<"b">>}
SearchFilters == {NoFilter, StrArg(<<>>), StrArg(<<"a">>), StrArg(<<"B">>)}

InitSearch ==
    /\ OnlySearch
    /\ r_pc = "input"
    /\ r_query \in SearchQueries
    /\ r_chunks \in SeqsUpTo(SearchUnits, MaxCorpus)
    /\ top_k \in 0..MaxTopK
    /\ pdf_filter \in SearchFilters
    /\ before = NoneArg
    /\ after = NoneArg
    /\ vectors = NoVectors
    /\ scored = <<>>

searchArgs == <<r_query, r_chunks, top_k, pdf_filter, before, after, vectors>>

\* query_chunks: search(query, chunks, top_k=top_k, pdf_filter=pdf_filter)
CallSearch ==
    /\ r_pc = "input"
    /\ scored' = search(r_query, r_chunks, top_k, pdf_filter)
    /\ r_pc' = "searched"
    /\ UNCHANGED searchArgs
    /\ UNCHANGED notSearch

\* enhanced_search: search_chunks(query, chunks, top_k=top_k)
CallSearchChunksV2 ==
    /\ r_pc = "input"
    /\ scored' = search_chunks_v2(r_query, r_chunks, top_k)
    /\ r_pc' = "searched_v2"
    /\ UNCHANGED searchArgs
    /\ UNCHANGED notSearch

NextSearch ==
    \/ CallSearch
    \/ CallSearchChunksV2

SpecSearch == InitSearch /\ [][NextSearch]_vars

\* ------------------------------------------------ lexical search: properties
\* The score search gives the i-th Unit of the corpus for the query.
ScoreOf(i) == score_chunk(QueryWords(r_query), SummaryOf(r_chunks[i]))

\* The source name of the i-th Unit contains the filter, case-insensitively.
SourceMatches(i, filt) ==
    Contains(Lower(basename(r_chunks[i].pdf_path)), Lower(filt.val))

\* Unit i ranks before Unit j: higher score, or equal score and earlier in
\* the corpus.
RanksBefore(i, j) ==
    \/ ScoreOf(i) > ScoreOf(j)
    \/ ScoreOf(i) = ScoreOf(j) /\ i < j

\* hits is the first min(k, n) entries of the Units of E in rank order; an
\* entry is a tuple (score, chunk, ...).
IsRanking(hits, E, k) ==
    /\ Len(hits) = Min(k, Cardinality(E))
    /\ \A h \in 1..Len(hits) :
           /\ hits[h][2] \in E
           /\ hits[h][1] = ScoreOf(hits[h][2])
    /\ \A g, h \in 1..Len(hits) : g < h => RanksBefore(hits[g][2], hits[h][2])
    /\ \A i \in E :
           (\A h \in 1..Len(hits) : hits[h][2] # i) =>
               \A h \in 1..Len(hits) : RanksBefore(hits[h][2], i)

EligibleUnits(filt) ==
    {i \in 1..Len(r_chunks) :
        ScoreOf(i) > 0 /\ (filt.isNone \/ SourceMatches(i, filt))}

\* C13: search returns the first min(top_k, n) of the eligible Units in
\* descending score order, Units of equal score in corpus order; a Unit is
\* eligible iff its score is > 0 and, when a filter is supplied, its source
\* name contains the filter case-insensitively. search_chunks of
\* retrieval_v2 returns the same with no filter.
C13_LexicalResultList ==
    /\ (r_pc = "searched") => IsRanking(scored, EligibleUnits(pdf_filter), top_k)
    /\ (r_pc = "searched_v2") => IsRanking(scored, EligibleUnits(NoFilter), top_k)

\* A filtered search that cuts the list: three eligible Units, the two of
\* equal score in corpus order behind the higher one, and a Unit whose
\* directory, not its name, holds the filter left out.
C13_Witness ==
    /\ r_pc = "searched"
    /\ r_query = <<"A", " ", "b">>
    /\ pdf_filter = StrArg(<<"a">>)
    /\ top_k = 2
    /\ r_chunks = <<SearchUnit(<<"A">>, <<"a">>),
                    SearchUnit(<<"a", "/", "b">>, <<"b", " ", "A">>),
                    SearchUnit(<<"A">>, <<"b", " ", "A">>)>>
    /\ scored = <<<<2, 3>>, <<1, 1>>>>

C13_WitnessTies ==
    /\ r_pc = "searched_v2"
    /\ top_k = 3
    /\ Len(scored) = 3
    /\ scored[1][2] = 2
    /\ scored[2][2] = 1
    /\ scored[3][2] = 3
    /\ scored[2][1] = scored[3][1]

\* ======================================================== temporal search
Digits == {"0", "1", "2", "6", "7", "8", "9"}
\* The characters \w matches, of those that occur.
WordChars == Digits \cup {"a", "b", "x", "A", "_"}

DigitVal(ch) ==
    CASE ch = "0" -> 0 [] ch = "1" -> 1 [] ch = "2" -> 2 [] ch = "6" -> 6
      [] ch = "7" -> 7 [] ch = "8" -> 8 [] ch = "9" -> 9

\* int(y) for a string of four digits
YearVal(run) ==
    1000 * DigitVal(run[1]) + 100 * DigitVal(run[2]) + 10 * DigitVal(run[3])
        + DigitVal(run[4])

\* (1[7-9]\d{2}|20\d{2}) matches the whole of run
IsYearRun(run) ==
    /\ Len(run) = 4
    /\ \A i \in 1..4 : run[i] \in Digits
    /\ \/ run[1] = "1" /\ run[2] \in {"7", "8", "9"}
       \/ run[1] = "2" /\ run[2] = "0"

\* re.findall(r"\b(1[7-9]\d{2}|20\d{2})\b", text): a match begins and ends
\* at a word boundary and holds word characters only, so it is a maximal
\* run of word characters; the matches are the runs that are years, in order.
RECURSIVE FindYears(_, _, _, _)
FindYears(str, i, run, found) ==
    LET closed == IF IsYearRun(run) THEN Append(found, YearVal(run)) ELSE found
    IN IF i > Len(str) THEN closed
       ELSE IF str[i] \in WordChars
            THEN FindYears(str, i + 1, Append(run, str[i]), found)
            ELSE FindYears(str, i + 1, <<>>, closed)

\* extract_years(text)
extract_years(str) == FindYears(str, 1, <<>>, <<>>)

\* any(y >= before for y in years) / any(y <= after for y in years)
AnyAtLeast(years, bound) == \E n \in 1..Len(years) : years[n] >= bound
AnyAtMost(years, bound) == \E n \in 1..Len(years) : years[n] <= bound

\* The loop of search_chunks over chunks[i..]: the entries appended.
RECURSIVE YearsLoop(_, _, _, _, _, _)
YearsLoop(query_words, chs, bef, aft, i, acc) ==
    IF i > Len(chs) THEN acc
    ELSE LET summ == SummaryOf(chs[i])
             sc == score_chunk(query_words, summ)
             years == extract_years(summ)
             skip == \/ summ = <<>>
                     \/ sc = 0
                     \/ Truthy(bef) /\ AnyAtLeast(years, bef.val)
                     \/ Truthy(aft) /\ AnyAtMost(years, aft.val)
         IN YearsLoop(query_words, chs, bef, aft, i + 1,
                IF skip THEN acc
                ELSE Append(acc, <<sc, i, years>>))

\* search_chunks(query, chunks, before, after, top_k) of retrieval_bullets.py
search_chunks(q, chs, bef, aft, k) ==
    SliceTo(SortByScore(YearsLoop(QueryWords(q), chs, bef, aft, 1, <<>>)), k)

Only1871 == <<"a", " ", "1", "8", "7", "1", ".">>
Has1800And1900 == <<"a", " ", "1", "8", "0", "0", " ", "1", "9", "0", "0">>
NoYear == <<"a">>
NoYearRun == <<"a", " ", "x", "1", "8", "7", "1">>
OutOfRange == <<"a", " ", "1", "6", "9", "9">>
OtherTerm == <<"b", " ", "1", "8", "7", "1">>
YearSummaries == {Only1871, Has1800And1900, NoYear, NoYearRun, OutOfRange, OtherTerm}
YearUnits == {SearchUnit(<<"A">>, summ) : summ \in YearSummaries}
BeforeBounds == {NoneArg, IntArg(0), IntArg(1871), IntArg(1872)}
AfterBounds == {NoneArg, IntArg(0), IntArg(1870), IntArg(1871)}

InitYears ==
    /\ OnlySearch
    /\ r_pc = "input"
    /\ r_query = <<"a">>
    /\ r_chunks \in SeqsUpTo(YearUnits, MaxCorpus)
    /\ top_k \in 0..MaxTopK
    /\ pdf_filter = NoFilter
    /\ before \in BeforeBounds
    /\ after \in AfterBounds
    /\ vectors = NoVectors
    /\ scored = <<>>

\* search_with_years(query, chunks, before=..., after=..., top_k=top_k)
CallSearchChunks ==
    /\ r_pc = "input"
    /\ scored' = search_chunks(r_query, r_chunks, before, after, top_k)
    /\ r_pc' = "searched_years"
    /\ UNCHANGED searchArgs
    /\ UNCHANGED notSearch

NextYears ==
    \/ CallSearchChunks

SpecYears == InitYears /\ [][NextYears]_vars

\* ----------------------------------------------- temporal search: properties
YearsOf(i) == extract_years(SummaryOf(r_chunks[i]))

\* Unit i has positive score and no year the bounds given exclude.
KeptBy(i, bef_given, aft_given) ==
    /\ ScoreOf(i) > 0
    /\ bef_given => ~AnyAtLeast(YearsOf(i), before.val)
    /\ aft_given => ~AnyAtMost(YearsOf(i), after.val)

\* C14: with bounds, search_chunks ranks exactly the Units of positive
\* score none of whose extracted years is >= before (when before is given)
\* and none <= after (when after is given).
C14_TemporalFilter ==
    (r_pc = "searched_years") =>
        IsRanking(scored,
                  {i \in 1..Len(r_chunks) : KeptBy(i, ~before.isNone, ~after.isNone)},
                  top_k)

\* The same with a bound counting as given when it is neither None nor 0.
C14_TemporalFilterNonZeroBounds ==
    (r_pc = "searched_years") =>
        IsRanking(scored,
                  {i \in 1..Len(r_chunks) : KeptBy(i, Truthy(before), Truthy(after))},
                  top_k)

\* before = 0 is given and the Unit whose only year is 1871 is returned.
C14_ZeroBoundIgnored ==
    /\ r_pc = "searched_years"
    /\ before = IntArg(0)
    /\ after = NoneArg
    /\ r_chunks = <<SearchUnit(<<"A">>, Only1871)>>
    /\ top_k = 1
    /\ scored = <<<<1, 1, <<1871>>>>>>

\* The Unit whose only year is 1871 is kept by before = 1872 and by
\* after = 1870, and excluded by before = 1871 and by after = 1871, a Unit
\* with no extractable year being kept each time.
C14_Kept1872 ==
    /\ r_pc = "searched_years"
    /\ before = IntArg(1872) /\ after = IntArg(1870)
    /\ r_chunks = <<SearchUnit(<<"A">>, NoYearRun), SearchUnit(<<"A">>, Only1871)>>
    /\ top_k = 2
    /\ Len(scored) = 2
    /\ scored[2] = <<1, 2, <<1871>>>>

C14_ExcludedBefore1871 ==
    /\ r_pc = "searched_years"
    /\ before = IntArg(1871) /\ after = NoneArg
    /\ r_chunks = <<SearchUnit(<<"A">>, NoYearRun), SearchUnit(<<"A">>, Only1871)>>
    /\ top_k = 2
    /\ scored = <<<<1, 1, <<>>>>>>

C14_ExcludedAfter1871 ==
    /\ r_pc = "searched_years"
    /\ before = NoneArg /\ after = IntArg(1871)
    /\ r_chunks = <<SearchUnit(<<"A">>, OutOfRange), SearchUnit(<<"A">>, Only1871)>>
    /\ top_k = 2
    /\ scored = <<<<1, 1, <<>>>>>>

\* ======================================================== semantic search
\* Embedding vectors, components in tenths; the vectors embed_texts returns
\* are the embedding model's choice.
ChunkVecs == {<<9, 4>>, <<4, 9>>, <<7, 7>>}
QueryVecs == {<<1, 0>>, <<0, 1>>}

\* cosine_similarity(vec_a, vec_b) = float(np.dot(vec_a, vec_b))
cosine_similarity(vec_a, vec_b) == vec_a[1] * vec_b[1] + vec_a[2] * vec_b[2]

\* for vec, chunk in zip(chunk_vecs, chunks): scored.append((score, chunk))
RECURSIVE SemanticLoop(_, _, _, _, _)
SemanticLoop(query_vec, chunk_vecs, chs, i, acc) ==
    IF i > Min(Len(chunk_vecs), Len(chs)) THEN acc
    ELSE SemanticLoop(query_vec, chunk_vecs, chs, i + 1,
                      Append(acc, <<cosine_similarity(query_vec, chunk_vecs[i]), i>>))

\* Mutant of semantic_search: the list is cut without being sorted.
semantic_search_unsorted(vecs, chs, k) ==
    SliceTo(SemanticLoop(vecs.query, vecs.chunks, chs, 1, <<>>), k)

\* semantic_search(query, chunks, top_k), given the vectors embed_texts
\* returned for the query and for the summaries
semantic_search(vecs, chs, k) ==
    SliceTo(SortByScore(SemanticLoop(vecs.query, vecs.chunks, chs, 1, <<>>)), k)

SemanticUnits ==
    {SearchUnit(<<"A">>, NoYear), SearchUnit(<<"a", "/", "b">>, Only1871),
     SearchUnit(<<"A">>, <<>>)}

InitSemantic ==
    /\ OnlySearch
    /\ r_pc = "input"
    /\ r_query = <<"a">>
    /\ r_chunks \in SeqsUpTo(SemanticUnits, MaxCorpus)
    /\ top_k \in 0..MaxTopK
    /\ pdf_filter = NoFilter
    /\ before = NoneArg
    /\ after = NoneArg
    /\ vectors \in {[query |-> qv, chunks |-> cvs] :
                       qv \in QueryVecs, cvs \in SeqsUpTo(ChunkVecs, MaxCorpus)}
    \* one vector per summary, the same vector for the same summary
    /\ Len(vectors.chunks) = Len(r_chunks)
    /\ \A i, j \in 1..Len(r_chunks) :
           SummaryOf(r_chunks[i]) = SummaryOf(r_chunks[j]) =>
               vectors.chunks[i] = vectors.chunks[j]
    /\ scored = <<>>

\* answer_question: results = semantic_search(query, chunks, top_k=top_k)
CallSemanticSearch ==
    /\ r_pc = "input"
    /\ scored' = semantic_search(vectors, r_chunks, top_k)
    /\ r_pc' = "searched_semantic"
    /\ UNCHANGED searchArgs
    /\ UNCHANGED notSearch

NextSemantic ==
    \/ CallSemanticSearch

SpecSemantic == InitSemantic /\ [][NextSemantic]_vars

\* ----------------------------------------------- semantic search: properties
\* The similarity of the i-th Unit's summary to the query.
Similarity(i) == cosine_similarity(vectors.query, vectors.chunks[i])

\* C15: semantic_search returns min(top_k, number of Units) entries, each a
\* different Unit with its similarity, in non-increasing similarity, every
\* returned Unit at least as similar as every Unit not returned; whatever
\* the Units' sources and years, none is left out for any other reason.
C15_SemanticRanking ==
    (r_pc = "searched_semantic") =>
        /\ Len(scored) = Min(top_k, Len(r_chunks))
        /\ \A h \in 1..Len(scored) :
               /\ Len(scored[h]) = 2
               /\ scored[h][2] \in 1..Len(r_chunks)
               /\ scored[h][1] = Similarity(scored[h][2])
        /\ \A g, h \in 1..Len(scored) :
               g < h => (scored[g][1] >= scored[h][1] /\ scored[g][2] # scored[h][2])
        /\ \A i \in 1..Len(r_chunks) :
               (\A h \in 1..Len(scored) : scored[h][2] # i) =>
                   \A h \in 1..Len(scored) : scored[h][1] >= Similarity(i)

\* Similarities 0.9, 0.4, 0.7 with top_k = 2: the 0.9 Unit, then the 0.7
\* Unit (which has another source, a year and an empty summary among them).
C15_Witness ==
    /\ r_pc = "searched_semantic"
    /\ top_k = 2
    /\ vectors = [query |-> <<1, 0>>, chunks |-> <<<<9, 4>>, <<4, 9>>, <<7, 7>>>>]
    /\ r_chunks = <<SearchUnit(<<"a", "/", "b">>, Only1871),
                    SearchUnit(<<"A">>, NoYear),
                    SearchUnit(<<"A">>, <<>>)>>
    /\ scored = <<<<9, 1>>, <<7, 3>>>>

\* ============================================================== synthesis
\* A ranked result as answer_question hands it on: the keys synthesize_answer
\* reads (pdf, chunk_position, summary).
Result(pdf, pos, summ) == [pdf |-> pdf, chunk_position |-> pos, summary |-> summ]
Results ==
    {Result(pdf, pos, summ) : pdf \in PdfNames, pos \in Positions,
                              summ \in {<<>>, <<"s">>}}

\* key = (pdf, chunk)
KeyOf(c) == <<c.pdf, c.chunk_position>>

\* Mutant of NextNumber: the number is the result's rank idx.
NextNumberByRank(map, idx) == idx

\* ref_map[key] = len(ref_map) + 1
NextNumber(map, idx) == Cardinality(DOMAIN map) + 1

\* for idx, c in enumerate(retrieved_chunks, start=1): ... ; st holds
\* ref_map and references
RECURSIVE RefLoop(_, _, _)
RefLoop(chs, idx, st) ==
    IF idx > Len(chs) THEN st
    ELSE LET key == KeyOf(chs[idx])
         IN IF key \in DOMAIN st.ref_map
            THEN RefLoop(chs, idx + 1, st)
            ELSE LET n == NextNumber(st.ref_map, idx)
                 IN RefLoop(chs, idx + 1,
                            [ref_map |-> st.ref_map @@ (key :> n),
                             references |->
                                 Append(st.references, <<n, key[1], key[2]>>)])

\* The lines of `combined`: (summary, reference number) for every result
\* with a summary
RECURSIVE Cited(_, _, _)
Cited(chs, map, i) ==
    IF i > Len(chs) THEN <<>>
    ELSE IF chs[i].summary # <<>>
         THEN <<<<chs[i].summary, map[KeyOf(chs[i])]>>>> \o Cited(chs, map, i + 1)
         ELSE Cited(chs, map, i + 1)

\* What the generation process may write to stdout.
SynthOutputs == {<<" ", "p", "\n">>, <<>>, <<"\n">>}

\* The texts returned on failure (after the warning sign they begin with).
TimeoutText == <<"Error: Ollama timed out while synthesizing the answer.">>
FailureText(msg) == <<"Error: Failed to synthesize answer. ">> \o msg

InitSynth ==
    /\ OnlySynth
    /\ y_pc = "input"
    /\ retrieved_chunks \in SeqsUpTo(Results, MaxResults)
    /\ ref_map = NoRefs
    /\ references = <<>>
    /\ combined = <<>>
    /\ y_procs = <<>>
    /\ y_ended = NotEnded
    /\ returned = NotReturned

\* synthesize_answer up to the try: the reference map, the reference list
\* and the cited summaries of the prompt
SynthBuild ==
    /\ y_pc = "input"
    /\ LET st == RefLoop(retrieved_chunks, 1, [ref_map |-> NoRefs, references |-> <<>>])
       IN /\ ref_map' = st.ref_map
          /\ references' = st.references
          /\ combined' = Cited(retrieved_chunks, st.ref_map, 1)
    /\ y_pc' = "built"
    /\ UNCHANGED <<retrieved_chunks, y_procs, y_ended, returned>>
    /\ UNCHANGED notSynth

\* An exception raised in the try body, the processes being left as given:
\* `except Exception as e` returns the failure text and the references.
SynthRaiseInTry(err, procs_after, how) ==
    /\ y_procs' = procs_after
    /\ y_ended' = [how |-> how, output |-> <<>>]
    /\ IF ExceptClause(err.cls) = "exception"
       THEN /\ returned' = [text |-> FailureText(err.msg), references |-> references]
            /\ y_pc' = "returned"
       ELSE /\ y_pc' = "raised"
            /\ UNCHANGED returned
    /\ UNCHANGED <<retrieved_chunks, ref_map, references, combined>>
    /\ UNCHANGED notSynth

\* subprocess.Popen(...) succeeds; the call blocks in communicate.
SynthPopen ==
    /\ y_pc = "built"
    /\ y_procs' = Append(y_procs, "running")
    /\ y_pc' = "communicate"
    /\ UNCHANGED <<retrieved_chunks, ref_map, references, combined, y_ended, returned>>
    /\ UNCHANGED notSynth

\* subprocess.Popen(...) raises.
SynthPopenFails ==
    /\ y_pc = "built"
    /\ \E err \in SpawnErrors :
           SynthRaiseInTry(err, Append(y_procs, "none"), "spawn_error")

\* communicate returns within the timeout: return output.strip(), references
SynthCommunicateReturns ==
    /\ y_pc = "communicate"
    /\ \E output \in SynthOutputs :
           /\ returned' = [text |-> Strip(output), references |-> references]
           /\ y_ended' = [how |-> "ok", output |-> output]
    /\ y_procs' = [y_procs EXCEPT ![Len(y_procs)] = "exited"]
    /\ y_pc' = "returned"
    /\ UNCHANGED <<retrieved_chunks, ref_map, references, combined>>
    /\ UNCHANGED notSynth

\* communicate raises TimeoutExpired: control is in the handler.
SynthCommunicateTimesOut ==
    /\ y_pc = "communicate"
    /\ y_ended' = [how |-> "timeout", output |-> <<>>]
    /\ y_pc' = IF ExceptClause("TimeoutExpired") = "timeout"
               THEN "timeout_caught" ELSE "raised"
    /\ UNCHANGED <<retrieved_chunks, ref_map, references, combined, y_procs, returned>>
    /\ UNCHANGED notSynth

\* except subprocess.TimeoutExpired: process.kill(); return the timeout text
SynthHandleTimeout ==
    /\ y_pc = "timeout_caught"
    /\ y_procs' = [y_procs EXCEPT ![Len(y_procs)] = KilledState(@)]
    /\ returned' = [text |-> TimeoutText, references |-> references]
    /\ y_pc' = "returned"
    /\ UNCHANGED <<retrieved_chunks, ref_map, references, combined, y_ended>>
    /\ UNCHANGED notSynth

\* communicate raises another exception.
SynthCommunicateRaises ==
    /\ y_pc = "communicate"
    /\ \E err \in CommErrors, left \in {"running", "exited"} :
           SynthRaiseInTry(err, [y_procs EXCEPT ![Len(y_procs)] = left], "comm_error")

NextSynth ==
    \/ SynthBuild
    \/ SynthPopen
    \/ SynthPopenFails
    \/ SynthCommunicateReturns
    \/ SynthCommunicateTimesOut
    \/ SynthHandleTimeout
    \/ SynthCommunicateRaises

SpecSynth == InitSynth /\ [][NextSynth]_vars

\* --------------------------------------------------- synthesis: properties
\* The distinct (source, position) pairs of the ranked results.
Pairs == {KeyOf(retrieved_chunks[i]) : i \in 1..Len(retrieved_chunks)}

\* The rank of the first result that carries the pair.
FirstSeen(pair) ==
    CHOOSE i \in 1..Len(retrieved_chunks) :
        /\ KeyOf(retrieved_chunks[i]) = pair
        /\ \A j \in 1..(i - 1) : KeyOf(retrieved_chunks[j]) # pair

\* 1 + the number of distinct pairs first seen before the pair
NumberOf(pair) ==
    1 + Cardinality({other \in Pairs : FirstSeen(other) < FirstSeen(pair)})

\* C16: once the reference table is built, each distinct (source, position)
\* pair has the number 1 + (count of distinct pairs first seen before it),
\* the numbers are exactly 1..d, every result is cited with the number of
\* its pair's first occurrence, and the reference list, which is the one
\* returned, lists the pairs in increasing number order.
C16_ReferenceNumbering ==
    (y_pc \notin {"idle", "input"}) =>
        /\ DOMAIN ref_map = Pairs
        /\ \A pair \in Pairs : ref_map[pair] = NumberOf(pair)
        /\ {ref_map[pair] : pair \in Pairs} = 1..Cardinality(Pairs)
        /\ Len(references) = Cardinality(Pairs)
        /\ \A n \in 1..Len(references) :
               /\ references[n][1] = n
               /\ <<references[n][2], references[n][3]>> \in Pairs
               /\ ref_map[<<references[n][2], references[n][3]>>] = n
        /\ \A n \in 1..Len(combined) : combined[n][2] \in 1..Cardinality(Pairs)
        /\ (y_pc = "returned") => returned.references = references

\* Results 1 and 3 share a pair: it has number 1, the pair of result 2 has
\* number 2.
C16_Witness ==
    /\ y_pc = "returned"
    /\ retrieved_chunks = <<Result("b.pdf", 1, <<"s">>), Result("a.pdf", 0, <<"s">>),
                            Result("b.pdf", 1, <<"s">>)>>
    /\ returned.references = <<<<1, "b.pdf", 1>>, <<2, "a.pdf", 0>>>>
    /\ combined = <<<<<<"s">>, 1>>, <<<<"s">>, 2>>, <<<<"s">>, 1>>>>

ExplicitFailureTexts ==
    {TimeoutText} \cup {FailureText(err.msg) : err \in SpawnErrors \cup CommErrors}

\* The call has returned the references it built, after one generation
\* attempt, with the trimmed output of the process or a failure text.
ReturnedTextOrMessage ==
    /\ returned.references = references
    /\ Len(y_procs) = 1
    /\ IF y_ended.how = "ok"
       THEN IsTrimOf(returned.text, y_ended.output)
       ELSE returned.text \in ExplicitFailureTexts

\* C17: however the single generation call ends, synthesize_answer returns
\* (no exception leaves it) a non-empty text, the generated paragraph or an
\* explicit failure message, with the reference list built before the
\* call, after exactly one generation attempt.
C17_NeverSilent ==
    /\ y_pc # "raised"
    /\ (y_pc = "returned") => (returned.text # <<>> /\ ReturnedTextOrMessage)

\* The same, the text being empty when the process wrote nothing but
\* whitespace.
C17_SilentOnlyOnBlankOutput ==
    /\ y_pc # "raised"
    /\ (y_pc = "returned") =>
           /\ ReturnedTextOrMessage
           /\ (returned.text = <<>>) =>
                  (y_ended.how = "ok" /\ \A n \in 1..Len(y_ended.output) :
                                             y_ended.output[n] \in Whitespace)

\* The process exits without output and the caller receives "".
C17_EmptyAnswerReturned ==
    /\ y_pc = "returned"
    /\ y_ended = [how |-> "ok", output |-> <<>>]
    /\ y_procs = <<"exited">>
    /\ retrieved_chunks = <<Result("a.pdf", 0, <<"s">>)>>
    /\ returned = [text |-> <<>>, references |-> <<<<1, "a.pdf", 0>>>>]

C17_TimeoutReturned ==
    /\ y_pc = "returned"
    /\ y_procs = <<"killed">>
    /\ returned.text = TimeoutText
    /\ Len(returned.references) = 2

\* =========================================================== entry points
\* The corpus file in the older shape {"summaries": [...]}.
WrappedFile(entries) ==
    [exists |-> TRUE, complete |-> TRUE, shape |-> "summaries", items |-> entries]

\* json.load(f): the list of a bare array, the dict of a wrapped one
json_load(f) ==
    [kind |-> IF f.shape = "list" THEN "list" ELSE "dict", items |-> f.items]

\* `not chunks`: an empty list is falsy, a dict with a key is not
Falsy(value) == value.kind = "list" /\ value.items = <<>>

\* The year_filter argument: None or a dict with the keys whose bound is
\* not None.
NoYearFilter == [isNone |-> TRUE, before |-> NoneArg, after |-> NoneArg]
DictFilter(bef, aft) == [isNone |-> FALSE, before |-> bef, after |-> aft]
\* `if year_filter:` : None and {} are falsy
TruthyDict(yf) == ~yf.isNone /\ (~yf.before.isNone \/ ~yf.after.isNone)

SearchTopK == 5
ContextTopK == 3
EntryQuery == <<"a">>

LoadReturn(value, said) ==
    [how |-> "returned", cls |-> "none", value |-> value, said |-> said]

\* Mutant of load_chunks_query: a missing file gives [] and no message.
load_chunks_silent(f) ==
    IF ~f.exists THEN LoadReturn(EmptyList, {}) ELSE LoadReturn(json_load(f), {})

\* load_chunks of query_chunks.py: a missing file is reported and gives []
load_chunks_query(f) ==
    IF ~f.exists THEN LoadReturn(EmptyList, {"not_found"})
    ELSE LoadReturn(json_load(f), {})

\* load_chunks of retrieval_bullets.py: a missing file raises
load_chunks_bullets(f) ==
    IF ~f.exists
    THEN [how |-> "raised", cls |-> "FileNotFoundError", value |-> EmptyList,
          said |-> {}]
    ELSE LoadReturn(json_load(f), {})

\* load_chunks of retrieval_v2.py: a missing file is reported, with the
\* guidance, and the process exits with status 1
load_chunks_v2(f) ==
    IF ~f.exists
    THEN [how |-> "exit", cls |-> "SystemExit", value |-> EmptyList,
          said |-> {"not_found", "guidance"}]
    ELSE LoadReturn(json_load(f), {})

\* The search function of a strategy applied to what the loader returned:
\* iterating a dict yields its keys, and chunk.get on a str raises
\* AttributeError.
Rank(value, strat, yf, vecs, k) ==
    IF value.kind # "list"
    THEN [ok |-> FALSE, cls |-> "AttributeError", hits |-> <<>>]
    ELSE [ok |-> TRUE, cls |-> "none",
          hits |-> CASE strat = "lexical" -> search(EntryQuery, value.items, k, NoFilter)
                     [] strat = "lexical_v2" -> search_chunks_v2(EntryQuery, value.items, k)
                     [] strat = "temporal" ->
                            search_chunks(EntryQuery, value.items, yf.before, yf.after, k)
                     [] strat = "semantic" -> semantic_search(vecs, value.items, k)]

\* `score, chunk = result` works on every result
Unpackable(hits) == \A h \in 1..Len(hits) : Len(hits[h]) = 2

Outcome(entry, how, hits, said) ==
    [entry |-> entry, how |-> how, cls |-> "none", results |-> hits, said |-> said]

\* The results are formatted and shown.
Shown(entry, hits, said) ==
    Outcome(entry, "returned", hits,
            said \cup {IF hits = <<>> THEN "no_match" ELSE "results"})

Handled(ld, strat, out) == [loaded |-> ld.value, strategy |-> strat, outcome |-> out]

\* main of query_chunks.py
main_query_chunks(f) ==
    LET ld == load_chunks_query(f)
        rk == Rank(ld.value, "lexical", NoYearFilter, NoVectors, SearchTopK)
        me == "query_chunks.main"
    IN IF Falsy(ld.value)
       THEN Handled(ld, "none", Outcome(me, "returned", <<>>, ld.said \cup {"guidance"}))
       ELSE IF ~rk.ok
       THEN Handled(ld, "lexical", Outcome(me, "exit", <<>>, ld.said \cup {"error"}))
       ELSE Handled(ld, "lexical", Shown(me, rk.hits, ld.said))

\* main of retrieval_bullets.py
main_retrieval_bullets(f, yf) ==
    LET ld == load_chunks_bullets(f)
        rk == Rank(ld.value, "temporal", yf, NoVectors, SearchTopK)
        me == "retrieval_bullets.main"
    IN IF ld.how = "raised"
       THEN Handled(ld, "none", Outcome(me, "exit", <<>>, {"not_found", "guidance"}))
       ELSE IF ~rk.ok
       THEN Handled(ld, "temporal", Outcome(me, "exit", <<>>, {"error"}))
       ELSE Handled(ld, "temporal", Shown(me, rk.hits, {}))

\* main of retrieval_v2.py
main_retrieval_v2(f) ==
    LET ld == load_chunks_v2(f)
        rk == Rank(ld.value, "lexical_v2", NoYearFilter, NoVectors, SearchTopK)
        me == "retrieval_v2.main"
    IN IF ld.how = "exit"
       THEN Handled(ld, "none", Outcome(me, "exit", <<>>, ld.said))
       ELSE IF ~rk.ok
       THEN Handled(ld, "lexical", Outcome(me, "exit", <<>>, {"error"}))
       ELSE Handled(ld, "lexical", Shown(me, rk.hits, {}))

\* get_historical_context of src/travel_assistant.py
get_historical_context(f, yf) ==
    LET ld == load_chunks_query(f)
        strat == IF TruthyDict(yf) THEN "temporal" ELSE "lexical"
        rk == Rank(ld.value, strat, yf, NoVectors, ContextTopK)
        me == "get_historical_context"
    IN IF Falsy(ld.value)
       THEN Handled(ld, "none", Outcome(me, "returned", <<>>, ld.said \cup {"guidance"}))
       ELSE IF ~rk.ok
       THEN Handled(ld, strat, Outcome(me, "returned", <<>>, ld.said \cup {"error"}))
       ELSE IF ~Unpackable(rk.hits)
       THEN Handled(ld, strat, Outcome(me, "returned", <<>>, ld.said \cup {"error"}))
       ELSE Handled(ld, strat, Shown(me, rk.hits, ld.said))

\* get_historical_context of src/Chicago/travel_assistant.py, with
\* get_chunks and answer_question
get_historical_context_chicago(f, yf, vecs) ==
    LET ld == load_chunks_query(f)
        strat == IF TruthyDict(yf) THEN "temporal" ELSE "semantic"
        rk == Rank(ld.value, strat, yf, vecs, ContextTopK)
        me == "Chicago.get_historical_context"
    IN IF Falsy(ld.value)
       THEN Handled(ld, "none", Outcome(me, "returned", <<>>, ld.said \cup {"guidance"}))
       ELSE IF ~rk.ok
       THEN Handled(ld, strat, Outcome(me, "returned", <<>>, ld.said \cup {"error"}))
       ELSE IF ~Unpackable(rk.hits)
       THEN Handled(ld, strat, Outcome(me, "returned", <<>>, ld.said \cup {"error"}))
       ELSE Handled(ld, strat, Shown(me, rk.hits, ld.said))

\* existing_results = load_existing_results(output_file)
ingestion_load(f) ==
    [loaded |-> [kind |-> "list", items |-> load_existing_results(f)],
     strategy |-> "none",
     outcome |-> Outcome("load_existing_results", "returned", <<>>, {})]

EntryUnits ==
    {SearchUnit(<<"A">>, NoYear), SearchUnit(<<"A">>, Only1871),
     SearchUnit(<<"A">>, OtherTerm)}
EntryFiles ==
    {AbsentFile}
        \cup {ListFile(entries) : entries \in SeqsUpTo(EntryUnits, MaxFileUnits)}
        \cup {WrappedFile(entries) : entries \in SeqsUpTo(EntryUnits, MaxFileUnits)}
YearFilters ==
    {NoYearFilter, DictFilter(NoneArg, NoneArg), DictFilter(IntArg(1872), NoneArg),
     DictFilter(NoneArg, IntArg(1871))}

\* What embed_texts may return for the query and n summaries.
VectorsFor(n) ==
    {[query |-> qv, chunks |-> cvs] :
        qv \in QueryVecs, cvs \in {c \in SeqsUpTo(ChunkVecs, n) : Len(c) = n}}

InitEntry ==
    /\ OnlyEntry
    /\ e_pc = "input"
    /\ corpus_file \in EntryFiles
    /\ year_filter \in YearFilters
    /\ loaded = EmptyList
    /\ strategy = "none"
    /\ outcome = NoOutcome
    /\ CACHED_CHUNKS = NoneValue
    /\ file_loads = <<>>
    /\ call_returns = <<>>

\* The entry point has run to its end: what it loaded, ranked and gave.
Ran(handled) ==
    /\ e_pc = "input"
    /\ loaded' = handled.loaded
    /\ strategy' = handled.strategy
    /\ outcome' = handled.outcome
    /\ e_pc' = "done"
    /\ UNCHANGED <<corpus_file, year_filter, CACHED_CHUNKS, file_loads, call_returns>>
    /\ UNCHANGED notEntry

IngestionLoad == Ran(ingestion_load(corpus_file))

MainQueryChunks == Ran(main_query_chunks(corpus_file))

MainRetrievalBullets == Ran(main_retrieval_bullets(corpus_file, year_filter))

MainRetrievalV2 == Ran(main_retrieval_v2(corpus_file))

GetHistoricalContext == Ran(get_historical_context(corpus_file, year_filter))

GetHistoricalContextChicago ==
    \E vecs \in VectorsFor(Len(corpus_file.items)) :
        Ran(get_historical_context_chicago(corpus_file, year_filter, vecs))

NextEntry ==
    \/ IngestionLoad
    \/ MainQueryChunks
    \/ MainRetrievalBullets
    \/ MainRetrievalV2
    \/ GetHistoricalContext
    \/ GetHistoricalContextChicago

SpecEntry == InitEntry /\ [][NextEntry]_vars

\* ------------------------------------------------ entry points: properties
QueryEntries ==
    {"query_chunks.main", "retrieval_bullets.main", "retrieval_v2.main",
     "get_historical_context", "Chicago.get_historical_context"}

\* The outcomes the entry point that ran has over file f.
OutcomesOver(f) ==
    CASE outcome.entry = "load_existing_results" -> {ingestion_load(f).outcome}
      [] outcome.entry = "query_chunks.main" -> {main_query_chunks(f).outcome}
      [] outcome.entry = "retrieval_bullets.main" ->
             {main_retrieval_bullets(f, year_filter).outcome}
      [] outcome.entry = "retrieval_v2.main" -> {main_retrieval_v2(f).outcome}
      [] outcome.entry = "get_historical_context" ->
             {get_historical_context(f, year_filter).outcome}
      [] outcome.entry = "Chicago.get_historical_context" ->
             {get_historical_context_chicago(f, year_filter, vecs).outcome :
                 vecs \in VectorsFor(Len(f.items))}

\* C18: over an existing corpus file of either shape, the loader of every
\* entry point returns the sequence of Units the file holds, and the entry
\* point gives what it gives over the bare array of those Units.
C18_LoadersAcceptBothShapes ==
    (e_pc = "done" /\ corpus_file.exists) =>
        /\ loaded = [kind |-> "list", items |-> corpus_file.items]
        /\ outcome \in OutcomesOver(ListFile(corpus_file.items))

\* The same for the ingestion loader alone.
C18_IngestionLoaderAcceptsBoth ==
    (e_pc = "done" /\ corpus_file.exists /\ outcome.entry = "load_existing_results") =>
        /\ loaded = [kind |-> "list", items |-> corpus_file.items]
        /\ outcome \in OutcomesOver(ListFile(corpus_file.items))

\* A wrapped corpus: the retrieval loader returns the dict and the query
\* ends in an error where the bare array gives a result.
C18_WrappedCorpusFails ==
    /\ e_pc = "done"
    /\ outcome.entry = "get_historical_context"
    /\ corpus_file = WrappedFile(<<SearchUnit(<<"A">>, NoYear)>>)
    /\ year_filter = NoYearFilter
    /\ loaded.kind = "dict"
    /\ outcome.said = {"error"}
    /\ get_historical_context(ListFile(corpus_file.items), year_filter).outcome.results
           = <<<<1, 1>>>>

\* C19: given a missing corpus file, the ingestion load returns an empty
\* corpus and raises nothing; a query entry point gives no results, raises
\* nothing to the user, and reports both that the file was not found and
\* that ingestion is to be run first.
C19_MissingCorpus ==
    (e_pc = "done" /\ ~corpus_file.exists) =>
        /\ outcome.cls = "none"
        /\ outcome.results = <<>>
        /\ strategy = "none"
        /\ loaded = EmptyList
        /\ (outcome.entry = "load_existing_results") => outcome.how = "returned"
        /\ (outcome.entry \in QueryEntries) =>
               {"not_found", "guidance"} \subseteq outcome.said

C19_Witness ==
    /\ e_pc = "done"
    /\ corpus_file = AbsentFile
    /\ outcome.entry = "get_historical_context"
    /\ outcome.how = "returned"
    /\ outcome.said = {"not_found", "guidance"}

C19_WitnessIngestion ==
    /\ e_pc = "done"
    /\ corpus_file = AbsentFile
    /\ outcome.entry = "load_existing_results"
    /\ loaded = EmptyList

C19_WitnessBullets ==
    /\ e_pc = "done"
    /\ corpus_file = AbsentFile
    /\ outcome.entry = "retrieval_bullets.main"
    /\ outcome.how = "exit"
    /\ outcome.said = {"not_found", "guidance"}

Assistants == {"get_historical_context", "Chicago.get_historical_context"}

\* C20: a query an assistant ranks with no year bounds is ranked by the
\* lexical strategy, and a strategy other than lexical ranks only when
\* year bounds select it.
C20_DefaultIsLexical ==
    (e_pc = "done" /\ outcome.entry \in Assistants /\ strategy # "none") =>
        /\ ~TruthyDict(year_filter) => strategy = "lexical"
        /\ strategy # "lexical" => TruthyDict(year_filter)

\* The same for get_historical_context of src/travel_assistant.py alone.
C20_RootAssistantDefaultsLexical ==
    (e_pc = "done" /\ outcome.entry = "get_historical_context" /\ strategy # "none") =>
        /\ ~TruthyDict(year_filter) => strategy = "lexical"
        /\ strategy # "lexical" => (TruthyDict(year_filter) /\ strategy = "temporal")

\* With no year filter the Chicago assistant ranks semantically.
C20_SemanticByDefault ==
    /\ e_pc = "done"
    /\ outcome.entry = "Chicago.get_historical_context"
    /\ year_filter = NoYearFilter
    /\ corpus_file = ListFile(<<SearchUnit(<<"A">>, OtherTerm)>>)
    /\ strategy = "semantic"
    /\ Len(outcome.results) = 1

\* ===================================== one run over an existing corpus file
\* process_multiple_pdfs as one step, started on a corpus file of any
\* content.
OldStamp(name) == <<name, 0, 1>>
ExistingEntries ==
    {Unit("a.pdf", 0, OldStamp("a.pdf")), Unit("b.pdf", 0, OldStamp("b.pdf")), NonDict}
ExistingContents ==
    {entries \in SeqsUpTo(ExistingEntries, MaxFileUnits) :
        \A k, l \in 1..Len(entries) :
            (k # l /\ IsDict(entries[k])) => entries[k] # entries[l]}
\* A JSON object without the key "summaries".
OtherDictFile == [exists |-> TRUE, complete |-> TRUE, shape |-> "other", items |-> <<>>]
ExistingFiles ==
    {AbsentFile, TornFile, OtherDictFile}
        \cup {ListFile(entries) : entries \in ExistingContents}
        \cup {WrappedFile(entries) : entries \in ExistingContents}

\* An entry of pdf_paths: a path that does not exist, a PDF process_pdf
\* raises on, or a PDF of n chunks.
PdfEntries ==
    {[how |-> "missing", path |-> "x/a.pdf", n |-> 0],
     [how |-> "raises", path |-> "x/b.pdf", n |-> 0]}
        \cup {[how |-> "ok", path |-> path, n |-> n] : path \in PdfPaths, n \in 0..MaxChunks}
PdfLists == SeqsUpTo(PdfEntries, MaxPdfs)

\* The loop over pdf_paths: a missing path is skipped, an exception of
\* process_pdf is caught, the Units of a processed PDF are merged.
RECURSIVE RunLoop(_, _, _)
RunLoop(acc, pdfs, i) ==
    IF i > Len(pdfs) THEN acc
    ELSE IF pdfs[i].how = "ok"
         THEN RunLoop(merge_results(acc,
                          process_pdf(pdfs[i].path, pdfs[i].n,
                                      <<Basename(pdfs[i].path), 1, i>>)),
                      pdfs, i + 1)
         ELSE RunLoop(acc, pdfs, i + 1)

\* all_results at the end of process_multiple_pdfs(pdf_paths, append=flag)
process_multiple_pdfs(f, flag, pdfs) ==
    RunLoop(IF flag /\ f.exists THEN load_existing_results(f) ELSE <<>>, pdfs, 1)

\* Per file name: how often the run processed it and the Units of its
\* last processing.
BatchOf(pdfs) ==
    [name \in PdfNames |->
        LET Idx == {i \in 1..Len(pdfs) :
                       pdfs[i].how = "ok" /\ Basename(pdfs[i].path) = name}
        IN IF Idx = {} THEN NotProcessed
           ELSE LET last == CHOOSE i \in Idx : \A j \in Idx : j <= i
                IN [times |-> Cardinality(Idx),
                    units |-> process_pdf(pdfs[last].path, pdfs[last].n,
                                          <<name, 1, last>>)]]

InitReingest ==
    /\ RetrievalIdle
    /\ ChunkIdle
    /\ MergeIdle
    /\ SummIdle
    /\ append = TRUE
    /\ file \in ExistingFiles
    /\ i_pc = "idle"
    /\ all_results = <<>>
    /\ n_done = 0
    /\ written = 0
    /\ runs = 0
    /\ batch = [name \in PdfNames |-> NotProcessed]
    /\ run_end = "none"
    /\ old_file = AbsentFile
    /\ seen = NothingSeen

\* process_multiple_pdfs from its first statement to its return.
RunToEnd ==
    /\ i_pc = "idle"
    /\ runs = 0
    /\ \E flag \in BOOLEAN, pdfs \in PdfLists :
           /\ (flag /\ file.exists) => file.complete
           /\ append' = flag
           /\ all_results' = process_multiple_pdfs(file, flag, pdfs)
           /\ file' = ListFile(process_multiple_pdfs(file, flag, pdfs))
           /\ batch' = BatchOf(pdfs)
    /\ old_file' = file
    /\ runs' = 1
    /\ run_end' = "saved"
    /\ UNCHANGED <<i_pc, n_done, written, seen>>
    /\ UNCHANGED notIngest

\* append is set and json.load raises on the file: nothing is written.
RunLoadRaises ==
    /\ i_pc = "idle"
    /\ runs = 0
    /\ file.exists /\ ~file.complete
    /\ append' = TRUE
    /\ old_file' = file
    /\ runs' = 1
    /\ run_end' = "load_raised"
    /\ UNCHANGED <<file, i_pc, all_results, n_done, written, batch, seen>>
    /\ UNCHANGED notIngest

NextReingest ==
    \/ RunToEnd
    \/ RunLoadRaises

SpecReingest == InitReingest /\ [][NextReingest]_vars

\* --------------------------------------------- one run: properties
\* Every Unit of the file before the run whose source the run did not
\* process is in the file after the run, unchanged.
UnprocessedKept ==
    \A k \in 1..Len(old_file.items) :
        (IsDict(old_file.items[k]) /\ batch[old_file.items[k].pdf_path].times = 0) =>
            \E l \in 1..Len(file.items) : file.items[l] = old_file.items[k]

\* C22 as stated: over any run that saved (any PDF list, append on or off,
\* any shape of the existing file), every Unit of the file before the run
\* whose source was not processed in the run is in the file after it.
C22_RemovedOnlyByReprocessing == (run_end = "saved") => UnprocessedKept

\* C22: over any run that saved with append on (any PDF list, any shape of
\* the existing file), every Unit of the file before the run whose source
\* was not processed in the run is in the file after it, unchanged.
C22_RemovedOnlyByReprocessingWhenAppending ==
    (run_end = "saved" /\ append) => UnprocessedKept

C22_Witness ==
    /\ run_end = "saved"
    /\ append
    /\ old_file = WrappedFile(<<Unit("b.pdf", 0, OldStamp("b.pdf")),
                               Unit("a.pdf", 0, OldStamp("a.pdf"))>>)
    /\ batch["a.pdf"].times = 0
    /\ batch["b.pdf"].times = 1
    /\ file.items = <<Unit("a.pdf", 0, OldStamp("a.pdf")),
                      Unit("b.pdf", 0, <<"b.pdf", 1, 1>>),
                      Unit("b.pdf", 1, <<"b.pdf", 1, 1>>)>>

\* A run with append off: the Units of a source it did not process are gone.
C22_OverwriteDropsUnits ==
    /\ run_end = "saved"
    /\ ~append
    /\ old_file = ListFile(<<Unit("a.pdf", 0, OldStamp("a.pdf"))>>)
    /\ batch["a.pdf"].times = 0
    /\ batch["b.pdf"].times = 1
    /\ file.items = <<Unit("b.pdf", 0, <<"b.pdf", 1, 1>>)>>

AllRecords(entries) == \A k \in 1..Len(entries) : IsDict(entries[k])

\* C27: for every corpus file a run loaded, what load_existing_results
\* returned for it holds no non-record entry, and the file the run wrote
\* holds none either.
C27_NonRecordsDiscardedAtLoad ==
    (run_end = "saved" /\ append) =>
        /\ AllRecords(load_existing_results(old_file))
        /\ AllRecords(file.items)

\* The non-record entries are gone from the file of a run whose last
\* processing of some file name produced Units.
C27_DiscardedWhenUnitsMerged ==
    (run_end = "saved" /\ \E name \in PdfNames : batch[name].units # <<>>) =>
        AllRecords(file.items)

\* A run that produced no Units writes back the non-record entry it loaded.
C27_NonRecordWritten ==
    /\ run_end = "saved"
    /\ append
    /\ old_file = ListFile(<<NonDict, Unit("a.pdf", 0, OldStamp("a.pdf"))>>)
    /\ batch["a.pdf"] = [times |-> 1, units |-> <<>>]
    /\ file.items = <<NonDict, Unit("a.pdf", 0, OldStamp("a.pdf"))>>

\* The hits search_chunks of retrieval_bullets.py gives for the query of
\* an assistant over the list it loaded.
YearHits ==
    search_chunks(EntryQuery, loaded.items, year_filter.before, year_filter.after,
                  ContextTopK)

\* An assistant has ranked the Units of a corpus file holding a bare array.
AssistantRanked ==
    /\ e_pc = "done"
    /\ outcome.entry \in Assistants
    /\ loaded.kind = "list"
    /\ strategy # "none"

\* C28: whichever strategy an assistant selects over a loaded list of
\* Units, no error is reported and every result of the strategy is given
\* out; a query with a year bound and a matching Unit gives formatted
\* results, one per hit.
C28_ResultsConsumable ==
    AssistantRanked =>
        /\ "error" \notin outcome.said
        /\ (TruthyDict(year_filter) /\ YearHits # <<>>) =>
               /\ "results" \in outcome.said
               /\ Len(outcome.results) = Len(YearHits)

\* Without a year bound (lexical or semantic ranking), and with a year
\* bound that leaves no hit, no error is reported.
C28_ConsumableWithoutYearHits ==
    (AssistantRanked /\ ~(TruthyDict(year_filter) /\ YearHits # <<>>)) =>
        /\ "error" \notin outcome.said
        /\ outcome.results = <<>> <=> "no_match" \in outcome.said
        /\ outcome.results # <<>> <=> "results" \in outcome.said
        /\ strategy = "lexical" =>
               outcome.results = search(EntryQuery, loaded.items, ContextTopK, NoFilter)

\* before=1872 and a Unit of 1871 matching the query: the hit is a
\* 3-tuple and the assistant gives an error message.
C28_YearBoundGivesError ==
    /\ AssistantRanked
    /\ outcome.entry = "get_historical_context"
    /\ year_filter = DictFilter(IntArg(1872), NoneArg)
    /\ corpus_file = ListFile(<<SearchUnit(<<"A">>, Only1871)>>)
    /\ Len(YearHits) = 1
    /\ Len(YearHits[1]) = 3
    /\ outcome.said = {"error"}
    /\ outcome.results = <<>>

\* The same through answer_question of src/Chicago/travel_assistant.py.
C28_YearBoundGivesErrorChicago ==
    /\ AssistantRanked
    /\ outcome.entry = "Chicago.get_historical_context"
    /\ year_filter = DictFilter(NoneArg, IntArg(1871))
    /\ Len(YearHits) = 1
    /\ outcome.said = {"error"}

\* ========================================================= the corpus cache
\* get_chunks of src/Chicago/travel_assistant.py, called again and again in
\* one process while ingestion runs rewrite the corpus file.
CacheFiles ==
    {AbsentFile, TornFile}
        \cup {ListFile(entries) : entries \in SeqsUpTo(EntryUnits, MaxFileUnits)}

Raised == [how |-> "raised", value |-> NoneValue]
Returned(value) == [how |-> "returned", value |-> value]

\* Mutant of CacheMiss: an empty cached corpus is loaded again.
CacheMissWhenFalsy(cached) == cached = NoneValue \/ Falsy(cached)

\* `if _CACHED_CHUNKS is None`
CacheMiss(cached) == cached = NoneValue

InitCache ==
    /\ OnlyEntry
    /\ e_pc = "serving"
    /\ corpus_file \in CacheFiles
    /\ year_filter = NoYearFilter
    /\ loaded = EmptyList
    /\ strategy = "none"
    /\ outcome = NoOutcome
    /\ CACHED_CHUNKS = NoneValue
    /\ file_loads = <<>>
    /\ call_returns = <<>>

cacheFrame == <<e_pc, corpus_file, year_filter, loaded, strategy, outcome>>

\* get_chunks() with the cache set: the cached value is returned.
GetChunksCached ==
    /\ e_pc = "serving"
    /\ Len(call_returns) < MaxCalls
    /\ ~CacheMiss(CACHED_CHUNKS)
    /\ call_returns' = Append(call_returns, Returned(CACHED_CHUNKS))
    /\ UNCHANGED <<CACHED_CHUNKS, file_loads>>
    /\ UNCHANGED cacheFrame
    /\ UNCHANGED notEntry

\* get_chunks() with the cache unset: load_chunks() returns, its value is
\* stored and returned.
GetChunksLoads ==
    /\ e_pc = "serving"
    /\ Len(call_returns) < MaxCalls
    /\ CacheMiss(CACHED_CHUNKS)
    /\ corpus_file.exists => corpus_file.complete
    /\ CACHED_CHUNKS' = load_chunks_query(corpus_file).value
    /\ file_loads' = Append(file_loads, Returned(load_chunks_query(corpus_file).value))
    /\ call_returns' = Append(call_returns, Returned(load_chunks_query(corpus_file).value))
    /\ UNCHANGED cacheFrame
    /\ UNCHANGED notEntry

\* get_chunks() with the cache unset on a file json.load cannot parse: the
\* exception leaves get_chunks, the assignment does not happen.
GetChunksLoadRaises ==
    /\ e_pc = "serving"
    /\ Len(call_returns) < MaxCalls
    /\ CacheMiss(CACHED_CHUNKS)
    /\ corpus_file.exists /\ ~corpus_file.complete
    /\ file_loads' = Append(file_loads, Raised)
    /\ call_returns' = Append(call_returns, Raised)
    /\ UNCHANGED CACHED_CHUNKS
    /\ UNCHANGED cacheFrame
    /\ UNCHANGED notEntry

\* An ingestion run, another process, rewrites the corpus file (or is in
\* the middle of writing it).
RewriteCorpusFile ==
    /\ e_pc = "serving"
    /\ corpus_file' \in (CacheFiles \ {AbsentFile, corpus_file})
    /\ UNCHANGED <<e_pc, year_filter, loaded, strategy, outcome, CACHED_CHUNKS,
                   file_loads, call_returns>>
    /\ UNCHANGED notEntry

NextCache ==
    \/ GetChunksCached
    \/ GetChunksLoads
    \/ GetChunksLoadRaises
    \/ RewriteCorpusFile

SpecCache == InitCache /\ [][NextCache]_vars

LoadsThatReturned == {n \in 1..Len(file_loads) : file_loads[n].how = "returned"}

C24_LoadedTwice ==
    /\ Len(file_loads) = 2
    /\ file_loads[1] = Raised
    /\ file_loads[2] = Returned([kind |-> "list",
                                 items |-> <<SearchUnit(<<"A">>, NoYear)>>])
    /\ call_returns = file_loads

\* ============================================ ingestion with a querying reader
\* The runs of Spec, and a reader that searches the corpus it has loaded.
\* The summary a stored Unit carries, by its position, and the reader's
\* query: the Unit at position 1 matches both terms, the others one.
StoredSummary(pos) ==
    CASE pos = 0 -> <<"a">>
      [] pos = 1 -> <<"a", " ", "b">>
      [] OTHER -> <<"b">>
ReaderQueryText == <<"b", " ", "a">>

\* The loaded Units as the search function reads them.
AsChunks(units) ==
    [k \in 1..Len(units) |->
        SearchUnit(<<units[k].pdf_path>>, StoredSummary(units[k].chunk_position))]

\* The reader calls search(query, chunks) on the list it loaded: the hits
\* are a new list of (score, chunk) pairs, chunks is the list it was.
ReaderSearch ==
    /\ seen.state = "corpus"
    /\ seen' = [state |-> "searched", items |-> seen.items,
                hits |-> search(ReaderQueryText, AsChunks(seen.items), SearchTopK,
                                NoFilter)]
    /\ UNCHANGED <<append, file, i_pc, all_results, n_done, written, runs, batch,
                   run_end, old_file>>
    /\ UNCHANGED notIngest

NextOrder ==
    \/ Next
    \/ ReaderSearch

SpecOrder == InitIngest /\ [][NextOrder]_vars

\* ------------------------------------------ position order: properties
\* The Units of every source in `corpus` are the chunks 0, 1, ..., n-1 of
\* one process_pdf call, in that order.
PositionOrder(corpus) ==
    \A name \in PdfNames :
        LET units == OfSource(corpus, name)
        IN \A k \in 1..Len(units) :
               /\ units[k].chunk_position = k - 1
               /\ units[k].id = <<units[1].id[1], k - 1>>

\* A step in which the reader's search returns.
SearchReturns == seen.state = "corpus" /\ seen'.state = "searched"

\* C26: in all_results after every merge, in every corpus file written and
\* in every corpus a reader loaded, the Units of a source carry the
\* positions 0..n-1 of the chunks of one chunking, in ascending order; and
\* a search leaves the list it was given, the file and all_results as
\* they were.
C26_PositionOrder ==
    /\ [](/\ PositionOrder(all_results)
          /\ PositionOrder(file.items)
          /\ PositionOrder(seen.items))
    /\ [][SearchReturns => /\ seen'.items = seen.items
                           /\ file' = file
                           /\ all_results' = all_results]_vars

\* Two sources of two Units each, merged in two runs; the reader searched
\* the corpus and its first hit is the second Unit of the list.
C26_Witness ==
    /\ seen.state = "searched"
    /\ Len(seen.items) = 4
    /\ seen.items = file.items
    /\ Len(OfSource(seen.items, "a.pdf")) = 2
    /\ Len(OfSource(seen.items, "b.pdf")) = 2
    /\ runs = 2
    /\ Len(seen.hits) = 4
    /\ seen.hits[1][2] = 2
    /\ seen.hits[2][2] = 4

====
